---- MODULE Spec2Model ----
(***************************************************************************)
(* bot-machine: the Router, the session middleware and the FlowController  *)
(* as a state machine.  One process handles one update at a time; every    *)
(* action is a synchronous segment of the code between two awaits.         *)
(*                                                                         *)
(* Strings that are matched against patterns (callback data, message text, *)
(* pattern keys) are sequences of one-character strings.  Names of flows,  *)
(* states, commands and handlers are plain strings.                        *)
(***************************************************************************)
EXTENDS Integers, Sequences, FiniteSets, TLC

(***************************************************************************)
(* Bounds                                                                   *)
(***************************************************************************)
\* Router.route is re-entered by ctx.enterFlow; the nesting is capped here.
MaxDepth == 2

(***************************************************************************)
(* Values                                                                   *)
(***************************************************************************)
\* A key that is not present in an object / a value that is undefined.
Absent == "undefined"

\* A string of characters that is undefined.  Telegram sends no empty text
\* and no empty callback data, so the empty sequence stands for undefined,
\* which is falsy like the empty string.
NoText == <<>>

Procs == {1, 2}

\* The characters of the regular-expression class \w (the lower-case
\* letters, the digits, '_' and the upper-case letter the model uses).
WordChars == {"a", "b", "c", "d", "e", "f", "g", "h", "i", "j", "k", "l", "m",
              "n", "o", "p", "q", "r", "s", "t", "u", "v", "w", "x", "y", "z",
              "0", "1", "2", "3", "4", "5", "6", "7", "8", "9", "_", "I"}

Digits == {"0", "1", "2", "3", "4", "5", "6", "7", "8", "9"}

IsSpace(c) == c = " "

(***************************************************************************)
(* utils.ts and the pattern matching of flow.ts / router.ts                *)
(***************************************************************************)
\* Length of the longest run of \w characters of s that starts at index i.
RECURSIVE WordRun(_, _)
WordRun(s, i) ==
  IF i > Len(s) \/ s[i] \notin WordChars THEN 0 ELSE 1 + WordRun(s, i + 1)

\* path.replace(/:(\w+)/g, '([^:]+)'): the template as a sequence of tokens,
\* a token being a literal character or the capture group "([^:]+)".
Group == "([^:]+)"

RECURSIVE TemplateTokens(_, _)
TemplateTokens(path, i) ==
  IF i > Len(path) THEN <<>>
  ELSE IF path[i] = ":" /\ WordRun(path, i + 1) > 0
       THEN <<Group>> \o TemplateTokens(path, i + 1 + WordRun(path, i + 1))
       ELSE <<path[i]>> \o TemplateTokens(path, i + 1)

\* The placeholder names /:(\w+)/g finds in the pattern, in order.
RECURSIVE extractParamNames(_, _)
extractParamNames(patternStr, i) ==
  IF i > Len(patternStr) THEN <<>>
  ELSE IF patternStr[i] = ":" /\ WordRun(patternStr, i + 1) > 0
       THEN <<SubSeq(patternStr, i + 1, i + WordRun(patternStr, i + 1))>>
            \o extractParamNames(patternStr, i + 1 + WordRun(patternStr, i + 1))
       ELSE extractParamNames(patternStr, i + 1)

\* A failed match; a successful one is the 1-tuple <<captures>>.
NoMatch == <<>>

\* Mutant: a group takes any characters, as (.+) does.
NoColon_any(s, k) == TRUE

\* The first k characters of s are in the class [^:].
NoColon(s, k) == \A j \in 1..k : s[j] # ":"

\* An anchored match of the tokens against the whole of s, as a backtracking
\* regular-expression engine finds it: a group is greedy, it takes the longest
\* run without ':' for which the rest still matches.  The result is the
\* sequence of captures wrapped in a 1-tuple, or NoMatch.
RECURSIVE MatchTokens(_, _)
MatchTokens(toks, s) ==
  IF toks = <<>> THEN (IF s = <<>> THEN <<<<>>>> ELSE NoMatch)
  ELSE IF Head(toks) = Group
       THEN LET ks == {k \in 1..Len(s) :
                         /\ NoColon(s, k)
                         /\ MatchTokens(Tail(toks), SubSeq(s, k + 1, Len(s))) # NoMatch}
            IN IF ks = {} THEN NoMatch
               ELSE LET k == CHOOSE m \in ks : \A n \in ks : n <= m
                        rest == MatchTokens(Tail(toks), SubSeq(s, k + 1, Len(s)))
                    IN <<(<<SubSeq(s, 1, k)>> \o rest[1])>>
       ELSE IF s # <<>> /\ Head(s) = Head(toks)
            THEN MatchTokens(Tail(toks), Tail(s))
            ELSE NoMatch

\* pathStringToRegex(path) applied to text: text.match(new RegExp(`^${pattern}$`)).
pathStringToRegex(path, text) == MatchTokens(TemplateTokens(path, 1), text)

\* text.match(new RegExp(pattern)) for a pattern without metacharacters:
\* the pattern is searched anywhere in the text; there are no captures.
PlainRegExp(pattern, text) ==
  IF \E i \in 0..(Len(text) - Len(pattern)) :
        SubSeq(text, i + 1, i + Len(pattern)) = pattern
  THEN <<<<>>>> ELSE NoMatch

\* The regular expression a string pattern is compiled to, applied to text.
PatternMatch(pattern, text) ==
  IF \E i \in 1..Len(pattern) : pattern[i] = ":"
  THEN pathStringToRegex(pattern, text)
  ELSE PlainRegExp(pattern, text)

\* Router.onCommand: text.match(/^\/${command}(?:@\w+)?(?:\s+(.*))?$/).
\* The one capture is the argument text, or NoText when there is none.
CommandMatch(command, text) ==
  LET n == Len(command) + 1 IN
  IF ~(Len(text) >= n /\ text[1] = "/" /\ SubSeq(text, 2, n) = command)
  THEN NoMatch
  ELSE LET at == IF Len(text) > n /\ text[n + 1] = "@" THEN WordRun(text, n + 2) ELSE 0
           m  == IF at > 0 THEN n + 1 + at ELSE n
       IN IF m = Len(text) THEN <<<<NoText>>>>
          ELSE IF IsSpace(text[m + 1])
               THEN LET sp == CHOOSE k \in 1..(Len(text) - m) :
                                /\ \A j \in 1..k : IsSpace(text[m + j])
                                /\ (m + k = Len(text) \/ ~IsSpace(text[m + k + 1]))
                    IN <<<<SubSeq(text, m + sp + 1, Len(text))>>>>
               ELSE NoMatch


(***************************************************************************)
(* The strings of the model                                                *)
(***************************************************************************)
D_inc  == <<"i", "n", "c">>
D_both == <<"b", "o", "t", "h">>
D_bfn  == <<"b", "f">>
D_go   == <<"g", "o">>
D_fn   == <<"f", "n">>
D_exit == <<"e", "x", "i", "t">>
D_bad  == <<"b", "a", "d">>
D_void == <<"v", "o", "i", "d">>
D_sel  == <<"s", ":", ":", "7">>
D_pair == <<"a", ":", "1", ":", "2">>
D_back == <<"b", "a", "c", "k">>
D_done == <<"d", "o", "n", "e">>
D_ping == <<"p", "i", "n", "g">>
D_zz   == <<"z", "z">>

T_start == <<"/", "s", "t", "a", "r", "t">>
T_aux   == <<"/", "a", "u", "x">>
T_lost  == <<"/", "l", "o", "s", "t">>
T_bad   == <<"/", "b", "a", "d">>
T_hello == <<"h", "e", "l", "l", "o">>
T_bob   == <<"b", "o", "b">>

K_sel  == <<"s", ":", ":", ":", "i", "d">>  \* the template 's:::id'
K_pair == <<"a", ":", ":", "x", ":", ":", "y">>  \* the template 'a::x::y'
K_name == <<":", "n", "a", "m", "e">>       \* the template ':name'
K_t    == <<":", "t">>                      \* the template ':t'
K_text == <<"t", "e", "x", "t">>            \* the key 'text' of a raw input
K_s    == <<"s">>                           \* the plain pattern 's'
K_7    == <<"7">>                           \* the plain pattern '7'

\* The vpn-bot example: its pattern keys, button data, command text and the
\* input key of selectVpnPlan.
K_selectPlan == <<"s", "e", "l", "e", "c", "t", "_", "p", "l", "a", "n", ":", ":", "p", "l", "a", "n", "I", "d">>   \* 'select_plan::planId'
K_planId     == <<"p", "l", "a", "n", "I", "d">>
D_plan       == <<"s", "e", "l", "e", "c", "t", "_", "p", "l", "a", "n", ":", "1", "m">>   \* 'select_plan:1m'
D_confirm    == <<"c", "o", "n", "f", "i", "r", "m", "_", "p", "a", "y", "m", "e", "n", "t">>   \* 'confirm_payment'
D_goBack     == <<"g", "o", "_", "b", "a", "c", "k">>   \* 'go_back'
D_startOver  == <<"s", "t", "a", "r", "t", "_", "o", "v", "e", "r">>   \* 'start_over'
T_vpn        == <<"/", "v", "p", "n">>   \* '/vpn'

CallbackDatas == {D_inc, D_both, D_bfn, D_go, D_fn, D_exit, D_bad, D_void, D_sel,
                  D_pair, D_back, D_done, D_ping, D_zz}
Texts == {T_start, T_aux, T_lost, T_bad, T_hello, T_bob}

\* The two fixed user-facing messages of flow.ts.
ActionFailMsg  == "action-failed"
DisplayFailMsg == "display-failed"

(***************************************************************************)
(* Business logic units (types.ts BotCommand / BotQuery)                   *)
(***************************************************************************)
\* An input contract: z.void(), z.undefined() or z.object({k: z.string()...}).
SchemaVoid      == [kind |-> "void", keys |-> {}]
SchemaUndefined == [kind |-> "undefined", keys |-> {}]
SchemaObject(keys) == [kind |-> "object", keys |-> keys]

\* The value given to a contract is undefined or an object (a function from
\* keys to strings of characters, NoText for a key whose value is undefined).
Undefined == [kind |-> "undefined"]
Object(fields) == [kind |-> "object", fields |-> fields]
IsObject(v) == v.kind = "object"

\* schema.parse(v) succeeds.
ParseOk(schema, v) ==
  IF schema.kind \in {"void", "undefined"} THEN ~IsObject(v)
  ELSE /\ IsObject(v)
       /\ \A k \in schema.keys : k \in DOMAIN v.fields /\ v.fields[k] # NoText

\* schema.parse(v) when it succeeds: z.object strips the keys it does not know.
Parse(schema, v) ==
  IF schema.kind \in {"void", "undefined"} THEN Undefined
  ELSE Object([k \in schema.keys |-> v.fields[k]])

\* Mutant: every result passes its output contract.
OutputOk_any(result) == TRUE

\* What a command's or query's execute may do: throw, or return a result.
\* "rbad" / "pbad" are results the unit's output contract rejects.
Throws == "throws"
CommandResults == {"r1", "r2", "rbad"}
QueryResults == {"p1", "pbad"}
OutputOk(result) == result \in {"r1", "r2", "p1"}

\* Commands: the input contract and whether execute writes session.data.
Commands ==
  [ inc    |-> [input |-> SchemaObject({}), writes |-> TRUE],
    noop   |-> [input |-> SchemaObject({}), writes |-> FALSE],
    void   |-> [input |-> SchemaVoid, writes |-> FALSE],
    select |-> [input |-> SchemaObject({<<"i", "d">>}), writes |-> TRUE],
    rename |-> [input |-> SchemaObject({<<"n", "a", "m", "e">>}), writes |-> TRUE],
    note   |-> [input |-> SchemaObject({K_text}), writes |-> FALSE],
    pair   |-> [input |-> SchemaObject({<<"x">>, <<"y">>}), writes |-> FALSE],
    selectVpnPlan   |-> [input |-> SchemaObject({K_planId}), writes |-> TRUE],
    processVpnOrder |-> [input |-> SchemaVoid, writes |-> FALSE] ]

Queries ==
  [ getData    |-> [input |-> SchemaVoid],
    getU       |-> [input |-> SchemaUndefined],
    getCounter |-> [input |-> SchemaObject({})],
    getVpnPlans |-> [input |-> SchemaVoid],
    getVpnPlan  |-> [input |-> SchemaVoid] ]

(***************************************************************************)
(* Flow definitions (types.ts FlowConfig, FlowState, ActionHandler)        *)
(***************************************************************************)
NoSelector == "none"

\* An ActionHandler.  nextState is a literal state name, Absent, or
\* "function" (then selector names the function of the command's result).
Rule(command, refresh, nextState) ==
  [command |-> command, refresh |-> refresh, nextState |-> nextState]

\* The nextState function of the model: r1 |-> 'second', anything else |->
\* undefined.
Selector(result) == IF result = "r1" THEN "second" ELSE Absent

NoQuery == "none"

\* A pattern table is the sequence of its <<key, rule>> entries as written.
MainConfig ==
  [ index |->
      [ onEnter  |-> "getData",
        onAction |-> << <<D_inc,  Rule("inc", TRUE, Absent)>>,
                        <<D_both, Rule("inc", TRUE, "second")>>,
                        <<D_bfn,  Rule("inc", TRUE, "function")>>,
                        <<D_go,   Rule("noop", FALSE, "second")>>,
                        <<D_fn,   Rule("noop", FALSE, "function")>>,
                        <<D_exit, Rule("noop", FALSE, Absent)>>,
                        <<D_bad,  Rule("noop", FALSE, "nowhere")>>,
                        <<D_void, Rule("void", FALSE, Absent)>>,
                        <<K_sel,  Rule("select", FALSE, "second")>> >>,
        onText   |-> <<>> ],
    second |->
      [ onEnter  |-> NoQuery,
        onAction |-> << <<D_back, Rule("noop", FALSE, "index")>>,
                        <<D_done, Rule("noop", FALSE, "final")>>,
                        <<K_pair, Rule("pair", FALSE, "index")>> >>,
        onText   |-> << <<K_name, Rule("rename", FALSE, "index")>> >> ],
    final |->
      [ onEnter  |-> NoQuery,
        onAction |-> <<>>,
        onText   |-> <<>> ] ]

AuxConfig ==
  [ index |->
      [ onEnter  |-> "getU",
        onAction |-> << <<K_s, Rule("noop", TRUE, Absent)>>,
                        <<K_7, Rule("noop", FALSE, "counter")>> >>,
        onText   |-> << <<K_t, Rule("note", TRUE, Absent)>> >> ],
    counter |->
      [ onEnter  |-> "getCounter",
        onAction |-> <<>>,
        onText   |-> <<>> ] ]

\* examples/vpn-bot/vpn.flow.ts: the vpnOrder flow.  selectVpnPlan writes
\* session.planId, which the model keeps in the session's data key.
VpnConfig ==
  [ selectPlan |->
      [ onEnter  |-> "getVpnPlans",
        onAction |-> << <<K_selectPlan, Rule("selectVpnPlan", FALSE, "confirmPlan")>> >>,
        onText   |-> <<>> ],
    confirmPlan |->
      [ onEnter  |-> "getVpnPlan",
        onAction |-> << <<D_confirm, Rule("processVpnOrder", FALSE, "complete")>>,
                        <<D_goBack,  Rule("noop", FALSE, "selectPlan")>> >>,
        onText   |-> <<>> ],
    complete |->
      [ onEnter  |-> NoQuery,
        onAction |-> << <<D_startOver, Rule("noop", FALSE, "selectPlan")>> >>,
        onText   |-> <<>> ] ]

\* Router.flows after the addFlow calls: flow name |-> FlowController.config.
Flows == [main |-> MainConfig, aux |-> AuxConfig, vpnOrder |-> VpnConfig]

FlowNames == DOMAIN Flows

\* The flows a test calls handle on.
TestFlows == {"main", "aux"}

\* Names that appear in the sessions of tests: those flows and an
\* unregistered one.
SessionFlowNames == TestFlows \cup {"ghost"}
SessionStateNames == {"index", "second", "final", "counter", "nowhere"}


(***************************************************************************)
(* Router configuration (the onCommand / onText / onCallbackQuery calls)   *)
(***************************************************************************)
\* A stateless handler is the sequence of the calls its body makes.
Op(op, f, s) == [op |-> op, f |-> f, s |-> s]

Handlers ==
  [ hStart |-> << Op("clear", "", ""), Op("reply", "", ""),
                  Op("enterFlow", "main", "index") >>,
    hAux   |-> << Op("enterFlow", "aux", "index") >>,
    hLost  |-> << Op("enterFlow", "ghost", "index") >>,
    hBad   |-> << Op("enterFlow", "main", "nowhere") >>,
    hEcho  |-> << Op("reply", "", "") >>,
    hPing  |-> << Op("answer", "", ""), Op("write", "", "") >>,
    \* examples/vpn-bot/index.ts lines 24-29
    hVpn   |-> << Op("clear", "", ""), Op("reply", "", ""),
                  Op("enterFlow", "vpnOrder", "selectPlan") >> ]

Route_(kind, pattern, handler) ==
  [kind |-> kind, pattern |-> pattern, handler |-> handler]

commandRoutes ==
  << Route_("command", <<"s", "t", "a", "r", "t">>, "hStart"),
     Route_("command", <<"a", "u", "x">>, "hAux"),
     Route_("command", <<"l", "o", "s", "t">>, "hLost"),
     Route_("command", <<"b", "a", "d">>, "hBad"),
     \* the example's router registers hVpn as 'start'; here that command
     \* is taken, and the handler is registered as 'vpn'
     Route_("command", <<"v", "p", "n">>, "hVpn") >>

textRoutes == << Route_("pattern", T_hello, "hEcho") >>

callbackQueryRoutes == << Route_("pattern", D_ping, "hPing") >>

(***************************************************************************)
(* State                                                                    *)
(***************************************************************************)
\* Session objects live in a heap: InMemorySessionStore hands out the very
\* object it stores, so ctx.session and the stored record can be one object.
Refs == 1..6
NoRef == 0

EmptySession == [flowName |-> Absent, flowState |-> Absent, data |-> Absent]

NoUpdate == [kind |-> "none", data |-> NoText, user |-> 0]

\* Mutant: both processes handle updates of the same user.
UserOf_shared(p) == 1

\* The user whose updates process p handles.
UserOf(p) == p

\* The updates process p can receive: a callback query or a text message of
\* its user, or a text message without a sender (a channel post).
UpdatesOf(p) ==
  [kind : {"callback"}, data : CallbackDatas, user : {UserOf(p)}]
    \cup [kind : {"message"}, data : Texts, user : {UserOf(p), 0}]

\* ctx.update.callback_query?.data and ctx.update.message?.text
callbackData(u) == IF u.kind = "callback" THEN u.data ELSE NoText
messageText(u)  == IF u.kind = "message" THEN u.data ELSE NoText

EmptyParams == [k \in {} |-> NoText]

NoRule == Rule("none", FALSE, Absent)

InitLocal ==
  [ mode |-> "none",          \* "router": Router.handle; "direct": flow.handle called by a test
    flow |-> Absent,          \* the FlowController whose handle runs
    state |-> Absent,         \* currentStateName of handle
    rule |-> NoRule,          \* the ActionHandler being executed
    pattern |-> NoText,       \* the pattern key that selected it
    cmd |-> "none",           \* how the command went: inputThrow, execThrow, outputThrow, ok
    result |-> Absent,        \* the command's result
    inAction |-> FALSE,       \* renderState was called from executeAction's try block
    target |-> Absent,        \* stateName of renderState
    props |-> Absent,         \* the entry query's result
    propsFrom |-> {},         \* the units whose results are in props
    rpre |-> EmptySession,    \* the session when renderState was entered
    rmark |-> 0,              \* Len(log) when renderState was entered
    ret |-> "none",           \* what handle returned: "true", "false", or "throw"
    start |-> EmptySession,   \* the session the context was created with
    pre |-> EmptySession,     \* the session when handle was entered
    preParams |-> EmptyParams,\* ctx.params when handle was entered
    mark |-> 0,               \* Len(log) when handle was entered
    sessionData |-> NoRef,    \* the session middleware's sessionData
    sessionExists |-> FALSE,  \* the session middleware's sessionExists
    record |-> "undefined",   \* the content of the user's record when store.get returned
    unit |-> "none",          \* a direct unit call: the unit's name,
    input |-> [kind |-> "undefined"],  \* the input it was given,
    arg |-> [kind |-> "undefined"],    \* what the user's execute received,
    value |-> "undefined",    \* and what the promise resolved with
    rows |-> << <<>> >>,      \* a Keyboard under construction: its rows,
    calls |-> <<>>,           \* the builder calls made on it so far,
    markup |-> <<>>,          \* and what inline() returned
    template |-> <<>>,        \* a pattern string given to the matcher,
    text |-> <<>>,            \* the text it is applied to,
    captures |-> <<>>,        \* and the result of text.match(regex)
    tables |-> [command |-> <<>>, text |-> <<>>, callback |-> <<>>],
                              \* the route tables of a router under construction
    mw |-> 0,                 \* how many middlewares of the chain have called next
    outcome |-> "none" ]      \* the promise of Router.handle or of a directly called
                              \* function: "resolved", "caught" (resolved after the
                              \* top-level catch) or "rejected"

VARIABLES
  heap,      \* Refs -> session object
  store,     \* InMemorySessionStore.store: user -> reference (NoRef: no record)
  pc,        \* where each process is
  update,    \* ctx.update
  session,   \* ctx.session (a reference)
  params,    \* ctx.params
  stack,     \* the stateless handlers that are running: <<[handler, pos]>>
  log,       \* what happened while the update was handled
  local      \* local variables of the functions on the call chain

vars == <<heap, store, pc, update, session, params, stack, log, local>>

Users == {UserOf(p) : p \in Procs}

Ev(op, x, r) == [op |-> op, x |-> x, r |-> r]

Sess(p) == heap[session[p]]

\* The references in use, the smallest free one, and the heap without garbage.
Live(st, sr, lc) ==
  ({st[u] : u \in Users} \cup {sr[p] : p \in Procs}
     \cup {lc[p].sessionData : p \in Procs}) \ {NoRef}
Alloc(st, sr, lc) ==
  CHOOSE r \in Refs \ Live(st, sr, lc) : \A q \in Refs \ Live(st, sr, lc) : r <= q
Collect(h, st, sr, lc) ==
  [r \in Refs |-> IF r \in Live(st, sr, lc) THEN h[r] ELSE EmptySession]

Init ==
  /\ heap = [r \in Refs |-> EmptySession]
  /\ store = [u \in Users |-> NoRef]
  /\ pc = [p \in Procs |-> "idle"]
  /\ update = [p \in Procs |-> NoUpdate]
  /\ session = [p \in Procs |-> NoRef]
  /\ params = [p \in Procs |-> EmptyParams]
  /\ stack = [p \in Procs |-> <<>>]
  /\ log = [p \in Procs |-> <<>>]
  /\ local = [p \in Procs |-> InitLocal]

(***************************************************************************)
(* FlowController: the pure parts                                          *)
(***************************************************************************)
\* Mutant: any active flow counts as this flow.
InThisFlow_anyFlow(s, F) == s.flowName # Absent

\* flow.ts line 31: the conversation is in this flow.
InThisFlow(s, F) == s.flowName = F

\* flow.ts line 35: ctx.session.flowState ?? 'index'
currentStateName(s) == IF s.flowState = Absent THEN "index" ELSE s.flowState

\* Mutants: exitFlow forgets one of the two keys.
exitFlow_keepState(s) == [s EXCEPT !.flowName = Absent]
exitFlow_keepName(s) == [s EXCEPT !.flowState = Absent]

\* Mutant: exitFlow leaves the session as it is.
exitFlow_none(s) == s

\* Mutant: exitFlow replaces the session by an empty one.
exitFlow_wipe(s) == EmptySession

\* exitFlow: delete ctx.session.flowName; delete ctx.session.flowState
exitFlow(s) == [s EXCEPT !.flowName = Absent, !.flowState = Absent]

\* A key that for...in treats as an array index: a canonical decimal number.
IsIndexKey(k) ==
  /\ Len(k) > 0
  /\ \A i \in 1..Len(k) : k[i] \in Digits
  /\ (Len(k) = 1 \/ k[1] # "0")

DigitValue(c) ==
  CASE c = "0" -> 0 [] c = "1" -> 1 [] c = "2" -> 2 [] c = "3" -> 3 [] c = "4" -> 4
    [] c = "5" -> 5 [] c = "6" -> 6 [] c = "7" -> 7 [] c = "8" -> 8 [] c = "9" -> 9

RECURSIVE KeyValue(_)
KeyValue(k) ==
  IF k = <<>> THEN 0 ELSE 10 * KeyValue(SubSeq(k, 1, Len(k) - 1)) + DigitValue(k[Len(k)])

\* The order in which `for (const pattern in handlers)` visits the entries:
\* index keys in ascending numeric order, then the others as written.
RECURSIVE SortIndexKeys(_)
SortIndexKeys(idx) ==
  IF idx = {} THEN <<>>
  ELSE LET i == CHOOSE a \in idx : \A b \in idx : a[1] <= b[1]
       IN <<i[2]>> \o SortIndexKeys(idx \ {i})

ForIn(handlers) ==
  LET idx == {<<KeyValue(handlers[i][1]), i>> :
                i \in {j \in 1..Len(handlers) : IsIndexKey(handlers[j][1])}}
      others == SelectSeq([i \in 1..Len(handlers) |-> i],
                          LAMBDA i : ~IsIndexKey(handlers[i][1]))
  IN SortIndexKeys(idx) \o others

\* processPatterns: the position in `handlers` of the first pattern, in
\* for...in order, that matches text; 0 when none does.
FirstMatch(handlers, text) ==
  LET order == ForIn(handlers)
      hits == {n \in 1..Len(order) : PatternMatch(handlers[order[n]][1], text) # NoMatch}
  IN IF hits = {} THEN 0
     ELSE order[CHOOSE n \in hits : \A m \in hits : n <= m]

\* Mutant: the captures are dropped.
FlowParams_none(pattern, caps) == EmptyParams

\* flow.ts lines 56-68: the placeholder names paired with the positional
\* captures; a capture that is empty is left out.
FlowParams(pattern, caps) ==
  LET names == extractParamNames(pattern, 1)
      n == IF Len(names) < Len(caps) THEN Len(names) ELSE Len(caps)
      set == {i \in 1..n : caps[i] # NoText}
  IN [k \in {names[i] : i \in set} |->
        caps[CHOOSE i \in set : names[i] = k /\ \A j \in set : names[j] = k => j <= i]]

\* router.ts lines 182-194: the same, but an empty capture gives ''.
RouterParams(names, caps) ==
  LET n == IF Len(names) < Len(caps) THEN Len(names) ELSE Len(caps)
  IN [k \in {names[i] : i \in 1..n} |->
        caps[CHOOSE i \in 1..n : names[i] = k /\ \A j \in 1..n : names[j] = k => j <= i]]

\* Mutant: with no params and no text the raw input is undefined.
rawInput_bare(prm, u) ==
  IF DOMAIN prm = {} /\ messageText(u) = NoText THEN Undefined
  ELSE Object([k \in DOMAIN prm \cup {K_text} |->
                 IF k = K_text THEN messageText(u) ELSE prm[k]])

\* flow.ts line 101: { ...ctx.params, text: ctx.update.message?.text }
rawInput(prm, u) ==
  Object([k \in DOMAIN prm \cup {K_text} |-> IF k = K_text THEN messageText(u) ELSE prm[k]])

\* What handle decides before its first await (lines 31-92).
\*   notMine: line 32;  missing: lines 38-41;  unmatched: line 92;
\*   matched: a rule of onAction or onText was selected (lines 44-89).
HandleDecision(F, s, u) ==
  IF ~InThisFlow(s, F) THEN [kind |-> "notMine"]
  ELSE LET st == currentStateName(s) IN
    IF st \notin DOMAIN Flows[F] THEN [kind |-> "missing", state |-> st]
    ELSE LET cfg == Flows[F][st]
             a == IF callbackData(u) # NoText
                  THEN FirstMatch(cfg.onAction, callbackData(u)) ELSE 0
             t == IF a = 0 /\ messageText(u) # NoText
                  THEN FirstMatch(cfg.onText, messageText(u)) ELSE 0
         IN IF a # 0
            THEN [kind |-> "matched", state |-> st, table |-> "onAction",
                  pattern |-> cfg.onAction[a][1], rule |-> cfg.onAction[a][2],
                  params |-> FlowParams(cfg.onAction[a][1],
                               PatternMatch(cfg.onAction[a][1], callbackData(u))[1])]
            ELSE IF t # 0
            THEN [kind |-> "matched", state |-> st, table |-> "onText",
                  pattern |-> cfg.onText[t][1], rule |-> cfg.onText[t][2],
                  params |-> FlowParams(cfg.onText[t][1],
                               PatternMatch(cfg.onText[t][1], messageText(u))[1])]
            ELSE [kind |-> "unmatched", state |-> st]

\* Mutant: nextState is looked at before refresh.
nextStateName_nextFirst(rule, s, result) ==
  IF rule.nextState = "function" THEN Selector(result)
  ELSE IF rule.nextState # Absent THEN rule.nextState
  ELSE IF rule.refresh THEN s.flowState
  ELSE Absent

\* flow.ts lines 110-115: the state to go to after the command succeeded;
\* Absent means the flow is left.
nextStateName(rule, s, result) ==
  IF rule.refresh THEN s.flowState
  ELSE IF rule.nextState = Absent THEN Absent
  ELSE IF rule.nextState = "function" THEN Selector(result)
  ELSE rule.nextState

\* action.nextState(result) is called (line 114).
SelectorCalled(rule) ==
  ~rule.refresh /\ rule.nextState = "function"

\* Mutant: the catch block of executeAction leaves the flow.
catchAction_exit(s) == [s EXCEPT !.flowName = Absent, !.flowState = Absent]

\* The catch block of executeAction (lines 123-127) leaves the session alone.
catchAction(s) == s


(***************************************************************************)
(* Steps shared by the actions                                             *)
(***************************************************************************)
TransportOutcomes == {"ok", "throw"}

SetLocal(p, l) == local' = [local EXCEPT ![p] = l]
SetPc(p, v) == pc' = [pc EXCEPT ![p] = v]
SetLog(p, lg) == log' = [log EXCEPT ![p] = lg]
SetSession(p, v) == heap' = [heap EXCEPT ![session[p]] = v]

\* Mutant: Router.handle has no try block.
handleCatches_none(l) == FALSE

\* router.ts lines 110-114: `await nextFn()` is inside a try block whose
\* catch only logs.  A test that calls a function itself has no such block.
handleCatches(l) == l.mode = "router"

\* An exception leaves a middleware, the flow engine or a stateless handler.
\* Nothing on the way up catches it (route, processRoutes, enterFlow and the
\* middlewares have no try block) until Router.handle's catch.  A direct
\* caller of flow.handle gets the rejection.
Escape(p, lg, l) ==
  /\ SetPc(p, "done")
  /\ stack' = [stack EXCEPT ![p] = <<>>]
  /\ IF handleCatches(l)
     THEN /\ SetLog(p, Append(lg, Ev("catch", "", "")))
          /\ SetLocal(p, [l EXCEPT !.outcome = "caught"])
     ELSE /\ SetLog(p, lg)
          /\ SetLocal(p, [l EXCEPT !.outcome = "rejected"])

\* handle returns v ("true" or "false") to its caller.
Return(p, v, l) ==
  /\ SetPc(p, "handled")
  /\ SetLocal(p, [l EXCEPT !.ret = v])

(***************************************************************************)
(* Router.handle and the session middleware                                *)
(***************************************************************************)
\* The middlewares, in the order of the router.use calls: one that may
\* decline to call next, the session middleware, and one that always calls
\* next.
Registered == <<"gate", "session", "tail">>

\* Mutant: the chain is built the other way round.
MiddlewareAt_reversed(d) == Registered[Len(Registered) + 1 - d]

\* router.ts lines 104-108: the loop wraps nextFn from the last registered
\* middleware to the first, so the middleware at depth d of the chain (1 is
\* the outermost) is the d-th registered.
MiddlewareAt(d) == Registered[d]

\* Mutant: the session middleware takes every update to have a user.
hasUser_always(u) == TRUE

\* session.ts lines 45-46: const userId = ctx.from?.id; if (!userId) ...
hasUser(u) == u.user # 0

\* Mutant: a session without flowName counts as empty.
isSessionEmpty_flowOnly(s) == s.flowName = Absent

\* session.ts line 62: Object.keys(ctx.session).length === 0
isSessionEmpty(s) == s = EmptySession

\* Mutant: get finds no record.
StoreGet_none(st, key) == NoRef

\* Map.get: undefined for a key without record.
StoreGet(st, key) == IF key \in DOMAIN st THEN st[key] ELSE NoRef

\* session.ts lines 17-19, Map.set: the record of the key is replaced.
StoreSet(st, key, ref) == [st EXCEPT ![key] = ref]

\* A call of the session store resolves or rejects (ISessionStore may be
\* backed by anything).
StoreOutcomes == {"ok", "throw"}

\* router.ts lines 97-111: a context is made for the update and the chain of
\* middlewares is started.
Router_handle(p, u) ==
  /\ pc[p] = "idle"
  /\ LET sr == [session EXCEPT ![p] = NoRef]
         lc == [local EXCEPT ![p] = InitLocal]
         r == Alloc(store, sr, lc)
     IN /\ session' = [sr EXCEPT ![p] = r]
        /\ SetLocal(p, [InitLocal EXCEPT !.mode = "router"])
        /\ heap' = Collect([heap EXCEPT ![r] = EmptySession], store, session', local')
  /\ SetPc(p, "mw")
  /\ SetLog(p, <<>>)
  /\ update' = [update EXCEPT ![p] = u]
  /\ params' = [params EXCEPT ![p] = EmptyParams]
  /\ stack' = [stack EXCEPT ![p] = <<>>]
  /\ UNCHANGED store

\* nextFn is called: the next middleware of the chain runs up to its own
\* call of next (session.ts lines 44-54 for the session middleware), or,
\* past the last one, Router.route is called (router.ts line 101).
middleware_before(p) ==
  /\ pc[p] = "mw"
  /\ LET d == local[p].mw + 1
     IN IF d > Len(Registered)
        THEN /\ SetPc(p, "route")
             /\ UNCHANGED <<log, local, stack>>
        ELSE LET m == MiddlewareAt(d)
                 lg == Append(log[p], Ev("before", m, ""))
             IN CASE m = "session" /\ ~hasUser(update[p]) ->
                       /\ SetLog(p, lg)
                       /\ SetLocal(p, [local[p] EXCEPT !.mw = d])
                       /\ UNCHANGED <<pc, stack>>
                  [] m = "session" /\ hasUser(update[p]) ->
                       \E r \in StoreOutcomes :
                         IF r = "ok"
                         THEN /\ SetLog(p, Append(lg, Ev("store.get", "", r)))
                              /\ SetLocal(p, [local[p] EXCEPT
                                     !.sessionData = StoreGet(store, update[p].user),
                                     !.record = IF StoreGet(store, update[p].user) = NoRef
                                                THEN Absent
                                                ELSE heap[StoreGet(store, update[p].user)]])
                              /\ SetPc(p, "session")
                              /\ UNCHANGED stack
                         ELSE Escape(p, Append(lg, Ev("store.get", "", r)), local[p])
                  [] m = "gate" ->
                       \E callsNext \in BOOLEAN :
                         IF callsNext
                         THEN /\ SetLog(p, lg)
                              /\ SetLocal(p, [local[p] EXCEPT !.mw = d])
                              /\ UNCHANGED <<pc, stack>>
                         ELSE /\ SetLog(p, Append(lg, Ev("blocked", m, "")))
                              /\ SetPc(p, "unwind")
                              /\ UNCHANGED <<local, stack>>
                  [] OTHER ->
                       /\ SetLog(p, lg)
                       /\ SetLocal(p, [local[p] EXCEPT !.mw = d])
                       /\ UNCHANGED <<pc, stack>>
  /\ UNCHANGED <<heap, store, update, session, params>>

\* session.ts lines 55-59: ctx.session = sessionData ?? {}; await next()
session_load(p) ==
  /\ pc[p] = "session"
  /\ LET sd == local[p].sessionData
         l == [local[p] EXCEPT !.sessionData = NoRef, !.sessionExists = (sd # NoRef),
                               !.mw = @ + 1]
     IN /\ SetLocal(p, l)
        /\ session' = [session EXCEPT ![p] = IF sd # NoRef THEN sd ELSE @]
        /\ heap' = Collect(heap, store, session', local')
  /\ SetPc(p, "mw")
  /\ UNCHANGED <<store, update, params, stack, log>>

\* session.ts lines 61-71, after next() has returned to the session
\* middleware; for an update without user it just returns (line 50).
session_save(p) ==
  /\ pc[p] = "unwind"
  /\ local[p].mw > 0
  /\ MiddlewareAt(local[p].mw) = "session"
  /\ LET key == update[p].user
         lg == Append(log[p], Ev("after", "session", ""))
         l == [local[p] EXCEPT !.mw = @ - 1]
     IN IF ~hasUser(update[p]) \/ (isSessionEmpty(Sess(p)) /\ ~local[p].sessionExists)
        THEN /\ SetLog(p, lg)
             /\ SetLocal(p, l)
             /\ UNCHANGED <<store, pc, stack>>
        ELSE \E r \in StoreOutcomes :
               LET op == IF isSessionEmpty(Sess(p)) THEN "store.delete" ELSE "store.set"
                   lg2 == Append(lg, Ev(op, "", r))
               IN IF r = "ok"
                  THEN /\ store' = IF op = "store.set"
                                   THEN StoreSet(store, key, session[p])
                                   ELSE [store EXCEPT ![key] = NoRef]
                       /\ SetLog(p, lg2)
                       /\ SetLocal(p, l)
                       /\ UNCHANGED <<pc, stack>>
                  ELSE /\ Escape(p, lg2, local[p])
                       /\ UNCHANGED store
  /\ heap' = Collect(heap, store', session, local)
  /\ UNCHANGED <<update, session, params>>

\* next() has returned to a middleware other than the session middleware,
\* which runs to its end; past the outermost one, `await nextFn()` in
\* Router.handle is over (router.ts line 111).
middleware_after(p) ==
  /\ pc[p] = "unwind"
  /\ IF local[p].mw = 0
     THEN /\ SetPc(p, "done")
          /\ SetLocal(p, [local[p] EXCEPT !.outcome = "resolved"])
          /\ UNCHANGED log
     ELSE /\ MiddlewareAt(local[p].mw) # "session"
          /\ SetLog(p, Append(log[p], Ev("after", MiddlewareAt(local[p].mw), "")))
          /\ SetLocal(p, [local[p] EXCEPT !.mw = @ - 1])
          /\ UNCHANGED pc
  /\ UNCHANGED <<heap, store, update, session, params, stack>>

(***************************************************************************)
(* A caller invokes unit.execute(input, ctx) of a unit built by            *)
(* createCommand / createQuery (core.ts)                                   *)
(***************************************************************************)
UnitNames == DOMAIN Commands \cup DOMAIN Queries

\* config.input of the unit.
UnitSchema(name) ==
  IF name \in DOMAIN Commands THEN Commands[name].input ELSE Queries[name].input

\* What the user's execute of the unit may return.
UnitResults(name) == IF name \in DOMAIN Commands THEN CommandResults ELSE QueryResults

\* The inputs a caller may pass: undefined, or an object with some of these
\* keys, each holding a string or undefined.
UnitInputKeys == {K_text, <<"x">>}
UnitInputs ==
  {Undefined} \cup
  {Object(f) : f \in UNION {[K -> {NoText, T_bob}] : K \in SUBSET UnitInputKeys}}

\* Mutant: the result is returned without being parsed.
UnitReturns_any(result) == TRUE

\* core.ts lines 22 and 52: const parsedOutput = outputSchema.parse(result)
UnitReturns(result) == OutputOk(result)

\* core.ts lines 18 and 48: loggedExecute parses the input, outside the
\* try block; a throw there rejects the promise of the async function.
call_unit(p, name, v) ==
  /\ pc[p] = "idle"
  /\ \A k \in Users : store[k] = NoRef
  /\ SetLog(p, <<>>)
  /\ IF ParseOk(UnitSchema(name), v)
     THEN /\ SetPc(p, "unit")
          /\ SetLocal(p, [InitLocal EXCEPT !.mode = "unit", !.unit = name, !.input = v,
                                           !.arg = Parse(UnitSchema(name), v)])
     ELSE /\ SetPc(p, "done")
          /\ SetLocal(p, [InitLocal EXCEPT !.mode = "unit", !.unit = name, !.input = v,
                                           !.outcome = "rejected"])
  /\ UNCHANGED <<heap, store, update, session, params, stack>>

\* core.ts lines 20-29 and 50-59: the user's execute runs with the parsed
\* input, its result is parsed, and a throw of either is logged and rethrown.
unit_execute(p) ==
  /\ pc[p] = "unit"
  /\ \E out \in UnitResults(local[p].unit) \cup {Throws} :
       /\ SetLog(p, Append(log[p], Ev("execute", local[p].unit, out)))
       /\ IF out # Throws /\ UnitReturns(out)
          THEN SetLocal(p, [local[p] EXCEPT !.outcome = "resolved", !.value = out])
          ELSE SetLocal(p, [local[p] EXCEPT !.outcome = "rejected"])
  /\ SetPc(p, "done")
  /\ UNCHANGED <<heap, store, update, session, params, stack>>

(***************************************************************************)
(* A test calls flow.handle(ctx) itself (flow.test.ts)                     *)
(***************************************************************************)
\* The sessions a test gives to handle.
TestSessions ==
  [flowName : SessionFlowNames \cup {Absent},
   flowState : SessionStateNames \cup {Absent},
   data : {Absent, "v"}]

\* The test has a flow and a context, but no router and no session store.
call_handle(p, F, u, s) ==
  /\ pc[p] = "idle"
  /\ \A k \in Users : store[k] = NoRef
  /\ LET sr == [session EXCEPT ![p] = NoRef]
         lc == [local EXCEPT ![p] = InitLocal]
         r == Alloc(store, sr, lc)
     IN /\ session' = [sr EXCEPT ![p] = r]
        /\ SetLocal(p, [InitLocal EXCEPT !.mode = "direct", !.flow = F, !.start = s])
        /\ heap' = Collect([heap EXCEPT ![r] = s], store, session', local')
  /\ SetPc(p, "handle")
  /\ SetLog(p, <<>>)
  /\ update' = [update EXCEPT ![p] = u]
  /\ params' = [params EXCEPT ![p] = EmptyParams]
  /\ stack' = [stack EXCEPT ![p] = <<>>]
  /\ UNCHANGED store

(***************************************************************************)
(* Router.route                                                            *)
(***************************************************************************)
\* router.ts lines 126-129: the flow the event is offered to, if any.
ActiveFlow(s) ==
  IF s.flowName # Absent /\ s.flowName \in FlowNames THEN s.flowName ELSE Absent

route(p) ==
  /\ pc[p] = "route"
  /\ LET F == ActiveFlow(Sess(p))
     IN IF F # Absent
        THEN /\ SetPc(p, "handle")
             /\ SetLocal(p, [local[p] EXCEPT !.flow = F])
        ELSE /\ SetPc(p, "stateless")
             /\ UNCHANGED local
  /\ SetLog(p, Append(log[p], Ev("route", ActiveFlow(Sess(p)), "")))
  /\ UNCHANGED <<heap, store, update, session, params, stack>>

\* Mutant: route stops whatever handle returned.
AfterHandle_stop(handled) == "return"

\* Mutant: route goes on to the stateless routes whatever handle returned.
AfterHandle_ignore(handled) == "stateless"

\* router.ts line 130: what route does once `await flow.handle(ctx)` is back.
AfterHandle(handled) == IF handled = "true" THEN "return" ELSE "stateless"

\* `await flow.handle(ctx)` is back with its value, in Router.route or in
\* the test that called it.
handle_returned(p) ==
  /\ pc[p] = "handled"
  /\ IF local[p].mode = "direct"
     THEN SetPc(p, "done")
     ELSE SetPc(p, AfterHandle(local[p].ret))
  /\ SetLog(p, Append(log[p], Ev("handled", local[p].flow, local[p].ret)))
  /\ UNCHANGED <<heap, store, update, session, params, stack, local>>


(***************************************************************************)
(* FlowController.handle, executeAction, renderState                       *)
(***************************************************************************)
\* flow.ts lines 30-104: handle up to its first await.  A matched rule has
\* its input validated; the command is called next, or the catch block runs.
handle(p) ==
  /\ pc[p] = "handle"
  /\ LET F == local[p].flow
         d == HandleDecision(F, Sess(p), update[p])
         l == [local[p] EXCEPT !.pre = Sess(p), !.preParams = params[p],
                               !.mark = Len(log[p]) + 1,
                               !.rule = NoRule, !.cmd = "none", !.result = Absent,
                               !.inAction = FALSE, !.target = Absent,
                               !.props = Absent, !.ret = "none", !.state = Absent,
                               !.pattern = NoText, !.propsFrom = {},
                               !.rpre = EmptySession, !.rmark = 0]
         lg == Append(log[p], Ev("handle", F, ""))
     IN CASE d.kind = "notMine" ->
               /\ Return(p, "false", l)
               /\ SetLog(p, lg)
               /\ UNCHANGED <<heap, params>>
          [] d.kind = "missing" ->
               /\ SetSession(p, exitFlow(Sess(p)))
               /\ Return(p, "false", [l EXCEPT !.state = d.state])
               /\ SetLog(p, lg)
               /\ UNCHANGED params
          [] d.kind = "unmatched" ->
               /\ SetPc(p, "render")
               /\ SetLocal(p, [l EXCEPT !.state = d.state, !.target = d.state])
               /\ SetLog(p, lg)
               /\ UNCHANGED <<heap, params>>
          [] d.kind = "matched" ->
               /\ params' = [params EXCEPT ![p] = d.params]
               /\ SetLog(p, Append(lg, Ev("match", d.table, "")))
               /\ IF ParseOk(Commands[d.rule.command].input, rawInput(d.params, update[p]))
                  THEN /\ SetPc(p, "execute")
                       /\ SetLocal(p, [l EXCEPT !.state = d.state, !.rule = d.rule,
                                                !.pattern = d.pattern])
                       /\ UNCHANGED heap
                  ELSE /\ SetPc(p, "actionError")
                       /\ SetLocal(p, [l EXCEPT !.state = d.state, !.rule = d.rule,
                                                !.pattern = d.pattern,
                                                !.cmd = "inputThrow"])
                       /\ SetSession(p, catchAction(Sess(p)))
  /\ UNCHANGED <<store, update, session, stack>>

\* Mutant: the new state is not written before the render.
setFlowState_late(s, nxt) == s

\* flow.ts line 118: ctx.session.flowState = nextStateName, before
\* `await this.renderState(ctx, nextStateName)` on line 119.
setFlowState(s, nxt) == [s EXCEPT !.flowState = nxt]

\* flow.ts lines 105-122: the command runs; on success the outcome of the
\* rule is decided and the session is updated.
executeAction(p) ==
  /\ pc[p] = "execute"
  /\ \E out \in CommandResults \cup {Throws} :
       LET rule == local[p].rule
           lg == Append(log[p], Ev("command", rule.command, out))
           s1 == IF out # Throws /\ Commands[rule.command].writes
                 THEN [Sess(p) EXCEPT !.data = "v"] ELSE Sess(p)
           nxt == nextStateName(rule, s1, out)
       IN IF out = Throws
          THEN /\ SetPc(p, "actionError")
               /\ SetLocal(p, [local[p] EXCEPT !.cmd = "execThrow"])
               /\ SetLog(p, lg)
               /\ SetSession(p, catchAction(s1))
          ELSE IF ~OutputOk(out)
          THEN /\ SetPc(p, "actionError")
               /\ SetLocal(p, [local[p] EXCEPT !.cmd = "outputThrow", !.result = out])
               /\ SetLog(p, lg)
               /\ SetSession(p, catchAction(s1))
          ELSE /\ SetLog(p, IF SelectorCalled(rule)
                            THEN Append(lg, Ev("nextState", "", "")) ELSE lg)
               /\ IF nxt # Absent
                  THEN /\ SetSession(p, setFlowState(s1, nxt))
                       /\ SetPc(p, "render")
                       /\ SetLocal(p, [local[p] EXCEPT !.cmd = "ok", !.result = out,
                                                       !.inAction = TRUE, !.target = nxt])
                  ELSE /\ SetSession(p, exitFlow(s1))
                       /\ Return(p, "true", [local[p] EXCEPT !.cmd = "ok", !.result = out])
  /\ UNCHANGED <<store, update, session, params, stack>>

\* Mutant: handle reports a re-rendered event as not handled.
RenderDone_false(p, l) == Return(p, "false", l)

\* renderState came to its end (normally or through its catch block): the
\* caller, handle or executeAction, has nothing left to do but return true.
RenderDone(p, l) == Return(p, "true", l)

\* flow.ts lines 141-147: props is {} or what the entry query returned; the
\* result of the command that led to the render is not among its sources.
PropsFrom(hasQuery) == IF hasQuery THEN {"query"} ELSE {}

\* flow.ts lines 131-144: the state is looked up and the entry query's input
\* (undefined) is validated.
renderState(p) ==
  /\ pc[p] = "render"
  /\ LET F == local[p].flow
         st == local[p].target
         lg == Append(log[p], Ev("render", st, ""))
         l == [local[p] EXCEPT !.rpre = Sess(p), !.rmark = Len(lg),
                               !.props = Absent, !.propsFrom = PropsFrom(FALSE)]
     IN /\ SetLog(p, lg)
        /\ IF st \notin DOMAIN Flows[F]
           THEN /\ SetSession(p, exitFlow(Sess(p)))
                /\ RenderDone(p, l)
           ELSE /\ UNCHANGED heap
                /\ SetLocal(p, l)
                /\ IF Flows[F][st].onEnter = NoQuery
                   THEN SetPc(p, "component")
                   ELSE IF ParseOk(Queries[Flows[F][st].onEnter].input, Undefined)
                        THEN SetPc(p, "onEnter")
                        ELSE SetPc(p, "displayError")
  /\ UNCHANGED <<store, update, session, params, stack>>

\* flow.ts lines 145-146: the entry query runs and its result is validated.
onEnter(p) ==
  /\ pc[p] = "onEnter"
  /\ \E out \in QueryResults \cup {Throws} :
       /\ SetLog(p, Append(log[p], Ev("query", local[p].target, out)))
       /\ IF out # Throws /\ OutputOk(out)
          THEN /\ SetPc(p, "component")
               /\ SetLocal(p, [local[p] EXCEPT !.props = out,
                                               !.propsFrom = PropsFrom(TRUE)])
          ELSE /\ SetPc(p, "displayError")
               /\ UNCHANGED local
  /\ UNCHANGED <<heap, store, update, session, params, stack>>

\* Mutant: every payload is delivered as a new message.
isUpdateFromCallback_never(u) == FALSE

\* flow.ts lines 150-154: the view function is called; the way the payload is
\* delivered depends on the origin of the update.
isUpdateFromCallback(u) == u.kind = "callback"

component(p) ==
  /\ pc[p] = "component"
  /\ SetLog(p, Append(log[p], Ev("view", local[p].target, local[p].props)))
  /\ SetPc(p, IF isUpdateFromCallback(update[p]) THEN "answer" ELSE "reply")
  /\ UNCHANGED <<heap, store, update, session, params, stack, local>>

\* flow.ts line 155: await ctx.answerCallbackQuery()
answerCallbackQuery(p) ==
  /\ pc[p] = "answer"
  /\ \E r \in TransportOutcomes :
       /\ SetLog(p, Append(log[p], Ev("answerCallbackQuery", "", r)))
       /\ SetPc(p, IF r = "ok" THEN "edit" ELSE "displayError")
  /\ UNCHANGED <<heap, store, update, session, params, stack, local>>

\* flow.ts line 156: await ctx.editMessageText(payload)
editMessageText(p) ==
  /\ pc[p] = "edit"
  /\ \E r \in TransportOutcomes :
       /\ SetLog(p, Append(log[p], Ev("editMessageText", local[p].target, r)))
       /\ IF r = "ok"
          THEN RenderDone(p, local[p])
          ELSE SetPc(p, "displayError") /\ UNCHANGED local
  /\ UNCHANGED <<heap, store, update, session, params, stack>>

\* flow.ts line 158: await ctx.reply(payload)
reply(p) ==
  /\ pc[p] = "reply"
  /\ \E r \in TransportOutcomes :
       /\ SetLog(p, Append(log[p], Ev("reply", local[p].target, r)))
       /\ IF r = "ok"
          THEN RenderDone(p, local[p])
          ELSE SetPc(p, "displayError") /\ UNCHANGED local
  /\ UNCHANGED <<heap, store, update, session, params, stack>>

\* flow.ts lines 160-163: the catch block of renderState.  When the reply
\* throws, the exception leaves renderState: into the catch block of
\* executeAction if renderState was called from there, else out of handle.
displayError(p) ==
  /\ pc[p] = "displayError"
  /\ \E r \in TransportOutcomes :
       LET lg == Append(log[p], Ev("reply", DisplayFailMsg, r))
       IN IF r = "ok"
          THEN /\ SetLog(p, lg)
               /\ RenderDone(p, local[p])
               /\ UNCHANGED stack
          ELSE IF local[p].inAction
          THEN /\ SetLog(p, lg)
               /\ SetPc(p, "actionError")
               /\ UNCHANGED <<local, stack>>
          ELSE Escape(p, lg, [local[p] EXCEPT !.ret = "throw"])
  /\ UNCHANGED <<heap, store, update, session, params>>

\* flow.ts lines 123-127: the catch block of executeAction.
actionError(p) ==
  /\ pc[p] = "actionError"
  /\ \E r \in TransportOutcomes :
       LET lg == Append(log[p], Ev("reply", ActionFailMsg, r))
       IN IF r = "ok"
          THEN /\ SetLog(p, lg)
               /\ Return(p, "true", local[p])
               /\ UNCHANGED stack
          ELSE Escape(p, lg, [local[p] EXCEPT !.ret = "throw"])
  /\ UNCHANGED <<heap, store, update, session, params>>


(***************************************************************************)
(* Router: the stateless routes                                            *)
(***************************************************************************)
\* text.match(route.pattern)
RouteMatch(r, text) ==
  IF r.kind = "command" THEN CommandMatch(r.pattern, text)
  ELSE PatternMatch(r.pattern, text)

\* Mutant: the last matching route of the table is taken.
FirstRoute_last(routes, text) ==
  LET hits == {i \in 1..Len(routes) : RouteMatch(routes[i], text) # NoMatch}
  IN IF hits = {} THEN 0 ELSE CHOOSE i \in hits : \A j \in hits : i >= j

\* processRoutes: the first route of the table that matches; 0 when none.
FirstRoute(routes, text) ==
  LET hits == {i \in 1..Len(routes) : RouteMatch(routes[i], text) # NoMatch}
  IN IF hits = {} THEN 0 ELSE CHOOSE i \in hits : \A j \in hits : i <= j

\* router.ts lines 135-153 over the three tables of a router: the route the
\* event selects and the text it matched; index 0 when no route matches.
RouteDecision(cmds, txts, cbs, u) ==
  LET c == IF messageText(u) # NoText THEN FirstRoute(cmds, messageText(u)) ELSE 0
      t == IF messageText(u) # NoText /\ c = 0
           THEN FirstRoute(txts, messageText(u)) ELSE 0
      q == IF callbackData(u) # NoText /\ c = 0 /\ t = 0
           THEN FirstRoute(cbs, callbackData(u)) ELSE 0
  IN IF c # 0 THEN [index |-> c, route |-> cmds[c], text |-> messageText(u)]
     ELSE IF t # 0 THEN [index |-> t, route |-> txts[t], text |-> messageText(u)]
     ELSE IF q # 0 THEN [index |-> q, route |-> cbs[q], text |-> callbackData(u)]
     ELSE [index |-> 0]

\* The same for the tables of the router the updates are sent to.
StatelessDecision(u) ==
  RouteDecision(commandRoutes, textRoutes, callbackQueryRoutes, u)

\* router.ts lines 135-153 and 168-201: the first matching route's handler
\* is called with ctx.params set from the match.
processRoutes(p) ==
  /\ pc[p] = "stateless"
  /\ LET d == StatelessDecision(update[p])
     IN IF d.index = 0
        THEN /\ SetPc(p, "return")
             /\ SetLog(p, Append(log[p], Ev("tables", "", "")))
             /\ UNCHANGED <<params, stack>>
        ELSE /\ Len(stack[p]) < MaxDepth
             /\ params' = [params EXCEPT ![p] =
                    RouterParams(extractParamNames(d.route.pattern, 1),
                                 RouteMatch(d.route, d.text)[1])]
             /\ stack' = [stack EXCEPT ![p] =
                    Append(@, [handler |-> d.route.handler, pos |-> 1])]
             /\ SetLog(p, Append(Append(log[p], Ev("tables", "", "")),
                                  Ev("handler", d.route.handler, "")))
             /\ SetPc(p, "handler")
  /\ UNCHANGED <<heap, store, update, session, local>>

\* Mutant: enterFlow writes the flow name only.
enterFlow_nameOnly(s, flowName, initialState) == [s EXCEPT !.flowName = flowName]

\* context.ts lines 162-163: this.session.flowName = flowName;
\* this.session.flowState = initialState
enterFlow(s, flowName, initialState) ==
  [s EXCEPT !.flowName = flowName, !.flowState = initialState]

Top(p) == stack[p][Len(stack[p])]

SetTopPos(p, n) ==
  stack' = [stack EXCEPT ![p] = [@ EXCEPT ![Len(@)] = [@ EXCEPT !.pos = n]]]

\* The body of a stateless handler, one call at a time.  ctx.enterFlow
\* (context.ts lines 155-166) writes both keys and runs Router.route again.
handler(p) ==
  /\ pc[p] = "handler"
  /\ LET body == Handlers[Top(p).handler]
         n == Top(p).pos
     IN IF n > Len(body)
        THEN \* the handler returns; processRoutes returns true; route returns
             /\ stack' = [stack EXCEPT ![p] = SubSeq(@, 1, Len(@) - 1)]
             /\ SetPc(p, "return")
             /\ UNCHANGED <<heap, session, log, local>>
        ELSE CASE body[n].op = "clear" ->        \* ctx.session = {}
                    LET sr == [session EXCEPT ![p] = NoRef]
                        r == Alloc(store, sr, local)
                    IN /\ session' = [sr EXCEPT ![p] = r]
                       /\ heap' = Collect([heap EXCEPT ![r] = EmptySession],
                                          store, session', local)
                       /\ SetTopPos(p, n + 1)
                       /\ UNCHANGED <<pc, log, local>>
               [] body[n].op = "write" ->        \* ctx.session.data = ...
                    /\ SetSession(p, [Sess(p) EXCEPT !.data = "v"])
                    /\ SetTopPos(p, n + 1)
                    /\ UNCHANGED <<pc, session, log, local>>
               [] body[n].op \in {"reply", "answer"} ->
                    \E r \in TransportOutcomes :
                      LET lg == Append(log[p],
                                  Ev(IF body[n].op = "reply" THEN "reply"
                                     ELSE "answerCallbackQuery", "handler", r))
                      IN /\ IF r = "ok"
                            THEN /\ SetLog(p, lg)
                                 /\ SetTopPos(p, n + 1)
                                 /\ UNCHANGED <<pc, local>>
                            ELSE Escape(p, lg, local[p])
                         /\ UNCHANGED <<heap, session>>
               [] body[n].op = "enterFlow" ->
                    /\ SetSession(p, enterFlow(Sess(p), body[n].f, body[n].s))
                    /\ SetLog(p, Append(log[p], Ev("enterFlow", body[n].f, body[n].s)))
                    /\ SetPc(p, "route")
                    /\ UNCHANGED <<session, stack, local>>
  /\ UNCHANGED <<store, update, params>>

\* Router.route returns: to the handler whose enterFlow called it, or to the
\* session middleware's `await next()` (router.ts line 101).
route_returned(p) ==
  /\ pc[p] = "return"
  /\ IF stack[p] # <<>>
     THEN /\ SetTopPos(p, Top(p).pos + 1)
          /\ SetPc(p, "handler")
          /\ SetLog(p, Append(log[p], Ev("entered", Handlers[Top(p).handler][Top(p).pos].f,
                                         Handlers[Top(p).handler][Top(p).pos].s)))
          /\ UNCHANGED local
     ELSE /\ UNCHANGED <<stack, log, local>>
          /\ SetPc(p, "unwind")
  /\ UNCHANGED <<heap, store, update, session, params>>

\* The update has been handled: its context is dropped.
finish(p) ==
  /\ pc[p] = "done"
  /\ SetPc(p, "idle")
  /\ update' = [update EXCEPT ![p] = NoUpdate]
  /\ session' = [session EXCEPT ![p] = NoRef]
  /\ params' = [params EXCEPT ![p] = EmptyParams]
  /\ SetLog(p, <<>>)
  /\ SetLocal(p, InitLocal)
  /\ heap' = Collect(heap, store, session', local')
  /\ UNCHANGED <<store, stack>>

(***************************************************************************)
(* Specification                                                            *)
(***************************************************************************)
Step(p) ==
  \/ \E u \in UpdatesOf(p) : Router_handle(p, u)
  \/ \E F \in TestFlows, u \in UpdatesOf(p), s \in TestSessions : call_handle(p, F, u, s)
  \/ \E name \in UnitNames, v \in UnitInputs : call_unit(p, name, v)
  \/ unit_execute(p)
  \/ middleware_before(p)
  \/ session_load(p)
  \/ session_save(p)
  \/ middleware_after(p)
  \/ route(p)
  \/ handle(p)
  \/ handle_returned(p)
  \/ executeAction(p)
  \/ renderState(p)
  \/ onEnter(p)
  \/ component(p)
  \/ answerCallbackQuery(p)
  \/ editMessageText(p)
  \/ reply(p)
  \/ displayError(p)
  \/ actionError(p)
  \/ processRoutes(p)
  \/ handler(p)
  \/ route_returned(p)
  \/ finish(p)

\* Updates are handled one after the other.
Next == Step(1)

Spec == Init /\ [][Next]_vars

(***************************************************************************)
(* Two users' updates handled concurrently: each Router.handle call is an  *)
(* async function, and between two of its awaits the other call may run.   *)
(***************************************************************************)
\* What each user sends: the first enters the main flow with /start and
\* presses 'go' there; the second presses 'ping', whose stateless handler
\* writes into the session.
ConcUpdates(p) ==
  IF p = 1
  THEN { [kind |-> "message", data |-> T_start, user |-> UserOf(p)],
         [kind |-> "callback", data |-> D_go, user |-> UserOf(p)] }
  ELSE { [kind |-> "callback", data |-> D_ping, user |-> UserOf(p)] }

ConcStep(p) ==
  \/ \E u \in ConcUpdates(p) : Router_handle(p, u)
  \/ middleware_before(p)
  \/ session_load(p)
  \/ session_save(p)
  \/ middleware_after(p)
  \/ route(p)
  \/ handle(p)
  \/ handle_returned(p)
  \/ executeAction(p)
  \/ renderState(p)
  \/ onEnter(p)
  \/ component(p)
  \/ answerCallbackQuery(p)
  \/ editMessageText(p)
  \/ reply(p)
  \/ displayError(p)
  \/ actionError(p)
  \/ processRoutes(p)
  \/ handler(p)
  \/ route_returned(p)
  \/ finish(p)

ConcNext == ConcStep(1) \/ ConcStep(2)

SpecConc == Init /\ [][ConcNext]_vars

(***************************************************************************)
(* The Keyboard builder (keyboard.ts)                                      *)
(***************************************************************************)
\* How many builder calls are made on one Keyboard.
MaxCalls == 4

\* Buttons the builder methods push: text(text, callback_data) and
\* url(text, url) with small sets of arguments.
Buttons ==
  { [kind |-> "text", text |-> "a"], [kind |-> "text", text |-> "b"],
    [kind |-> "url", text |-> "a"] }

NoButton == [kind |-> "none", text |-> ""]

\* keyboard.ts line 15: rows = [[]]
NewRows == << <<>> >>

\* Mutant: row() on an empty current row adds nothing.
Keyboard_row_skipEmpty(rows) ==
  IF rows[Len(rows)] = <<>> THEN rows ELSE Append(rows, <<>>)

\* keyboard.ts lines 25-28: this.rows.push([])
Keyboard_row(rows) == Append(rows, <<>>)

\* keyboard.ts lines 17-19 and 39-42 (and the other button methods, which
\* differ in the button only): this.currentRow.push(button), where
\* currentRow is the last row.
Keyboard_push(rows, b) == [rows EXCEPT ![Len(rows)] = Append(@, b)]

\* keyboard.ts lines 142-144: the inline_keyboard of the returned markup.
Keyboard_inline(rows) == rows

\* new Keyboard()
new_Keyboard(p) ==
  /\ pc[p] \in {"idle", "inlined"}
  /\ SetPc(p, "keyboard")
  /\ SetLocal(p, [InitLocal EXCEPT !.mode = "keyboard", !.rows = NewRows])
  /\ UNCHANGED <<heap, store, update, session, params, stack, log>>

\* .text(...), .url(...), ...
call_button(p, b) ==
  /\ pc[p] = "keyboard"
  /\ Len(local[p].calls) < MaxCalls
  /\ SetLocal(p, [local[p] EXCEPT !.rows = Keyboard_push(@, b),
                                  !.calls = Append(@, [op |-> "button", b |-> b])])
  /\ UNCHANGED <<heap, store, update, session, params, stack, log, pc>>

\* .row()
call_row(p) ==
  /\ pc[p] = "keyboard"
  /\ Len(local[p].calls) < MaxCalls
  /\ SetLocal(p, [local[p] EXCEPT !.rows = Keyboard_row(@),
                                  !.calls = Append(@, [op |-> "row", b |-> NoButton])])
  /\ UNCHANGED <<heap, store, update, session, params, stack, log, pc>>

\* .inline()
call_inline(p) ==
  /\ pc[p] = "keyboard"
  /\ SetPc(p, "inlined")
  /\ SetLocal(p, [local[p] EXCEPT !.markup = Keyboard_inline(local[p].rows)])
  /\ UNCHANGED <<heap, store, update, session, params, stack, log>>

KeyboardStep(p) ==
  \/ new_Keyboard(p)
  \/ \E b \in Buttons : call_button(p, b)
  \/ call_row(p)
  \/ call_inline(p)

KeyboardNext == KeyboardStep(1)

SpecKeyboard == Init /\ [][KeyboardNext]_vars

\* Updates through Router.handle only: /start and 'go' (a flow is entered
\* and a transition made), /lost (the handler enters a flow that is not
\* registered) and /bad (the handler enters a state the flow does not have).
LiveUpdates(p) ==
  { [kind |-> "message", data |-> T_start, user |-> UserOf(p)],
    [kind |-> "callback", data |-> D_go, user |-> UserOf(p)],
    [kind |-> "message", data |-> T_lost, user |-> UserOf(p)],
    [kind |-> "message", data |-> T_bad, user |-> UserOf(p)] }

\* The steps of a Router.handle call other than the entry of
\* FlowController.handle.
CallStep(p) ==
  \/ middleware_before(p)
  \/ session_load(p)
  \/ session_save(p)
  \/ middleware_after(p)
  \/ route(p)
  \/ handle_returned(p)
  \/ executeAction(p)
  \/ renderState(p)
  \/ onEnter(p)
  \/ component(p)
  \/ answerCallbackQuery(p)
  \/ editMessageText(p)
  \/ reply(p)
  \/ displayError(p)
  \/ actionError(p)
  \/ processRoutes(p)
  \/ handler(p)
  \/ route_returned(p)
  \/ finish(p)

LiveStep(p) ==
  \/ \E u \in LiveUpdates(p) : Router_handle(p, u)
  \/ handle(p)
  \/ CallStep(p)

LiveNext == LiveStep(1)

\* The event loop runs every pending continuation: whichever step of the
\* call is next, it is eventually taken.  handle(p) can be taken whenever the
\* call is at "handle", so its fairness is that the call does not stay
\* there.  Nothing is assumed about new updates arriving.
Fairness(p) ==
  /\ WF_vars(CallStep(p))
  /\ []<>(pc[p] # "handle")

SpecLive == Init /\ [][LiveNext]_vars /\ Fairness(1)

(***************************************************************************)
(* The vpn-bot example (examples/vpn-bot), one update at a time.           *)
(***************************************************************************)
\* /vpn and the buttons of the example's screens.
VpnUpdates(p) ==
  { [kind |-> "message", data |-> T_vpn, user |-> UserOf(p)],
    [kind |-> "callback", data |-> D_plan, user |-> UserOf(p)],
    [kind |-> "callback", data |-> D_confirm, user |-> UserOf(p)],
    [kind |-> "callback", data |-> D_goBack, user |-> UserOf(p)],
    [kind |-> "callback", data |-> D_startOver, user |-> UserOf(p)] }

VpnStep(p) ==
  \/ \E u \in VpnUpdates(p) : Router_handle(p, u)
  \/ handle(p)
  \/ CallStep(p)

VpnNext == VpnStep(1)

SpecVpn == Init /\ [][VpnNext]_vars

(***************************************************************************)
(* Two updates of one user in flight together through Router.handle.       *)
(***************************************************************************)
TheUser == UserOf(1)

\* Both calls are given updates of the same user: /start (whose handler
\* replaces the session object and enters the main flow) and 'go' for the
\* first, 'go' for the second.
SameUserUpdates(p) ==
  IF p = 1
  THEN { [kind |-> "message", data |-> T_start, user |-> TheUser],
         [kind |-> "callback", data |-> D_go, user |-> TheUser] }
  ELSE { [kind |-> "callback", data |-> D_go, user |-> TheUser] }

SameUserStep(p) ==
  \/ \E u \in SameUserUpdates(p) : Router_handle(p, u)
  \/ handle(p)
  \/ CallStep(p)

SameUserNext == SameUserStep(1) \/ SameUserStep(2)

SpecSameUser == Init /\ [][SameUserNext]_vars

(***************************************************************************)
(* Pattern strings applied to texts (utils.ts pathStringToRegex and the    *)
(* regular expression processPatterns builds from a pattern key)           *)
(***************************************************************************)
\* The longest text tried.
MaxLen == 5

\* Texts of a value character, the delimiter '-' and ':'.
MatchAlphabet == {"x", "-", ":"}
MatchTexts == UNION {[1..n -> MatchAlphabet] : n \in 1..MaxLen}

T_ab == <<":", "a", "-", ":", "b">>         \* the template ':a-:b'
T_a  == <<":", "a">>                        \* the template ':a'

Templates == {T_ab, T_a}

\* A template and a text are given.
MatchInit ==
  /\ heap = [r \in Refs |-> EmptySession]
  /\ store = [u \in Users |-> NoRef]
  /\ pc = [p \in Procs |-> IF p = 1 THEN "match" ELSE "idle"]
  /\ update = [p \in Procs |-> NoUpdate]
  /\ session = [p \in Procs |-> NoRef]
  /\ params = [p \in Procs |-> EmptyParams]
  /\ stack = [p \in Procs |-> <<>>]
  /\ log = [p \in Procs |-> <<>>]
  /\ \E t \in Templates, x \in MatchTexts :
       local = [p \in Procs |->
                  IF p = 1 THEN [InitLocal EXCEPT !.mode = "match", !.template = t, !.text = x]
                  ELSE InitLocal]

\* flow.ts lines 44-48: the pattern is compiled and text.match(regex) is
\* evaluated.
apply_match(p) ==
  /\ pc[p] = "match"
  /\ SetLocal(p, [local[p] EXCEPT !.captures = PatternMatch(local[p].template, local[p].text)])
  /\ SetPc(p, "matched")
  /\ UNCHANGED <<heap, store, update, session, params, stack, log>>

MatchNext == apply_match(1)

SpecMatch == MatchInit /\ [][MatchNext]_vars

(***************************************************************************)
(* The route tables of a router (router.ts onCommand, onText,              *)
(* onCallbackQuery) and one pass of Router.route over them                 *)
(***************************************************************************)
\* How many routes are registered on one router.
MaxRoutes == 3

\* onCommand('a', ...), onCommand('b', ...)
RouteCommands == { <<"a">>, <<"b">> }

\* String patterns for onText and onCallbackQuery: 'a' (a regular
\* expression, not anchored) and ':t' (a template, anchored).
RoutePatterns == { <<"a">>, <<":", "t">> }

\* The texts of messages and the data of callback queries sent to it.
RouteTexts == { <<"/", "a">>, <<"a">>, <<"b", ":">> }

RouteUpdates ==
  [kind : {"message", "callback"}, data : RouteTexts, user : {UserOf(1)}]

RouteCount(tb) == Len(tb.command) + Len(tb.text) + Len(tb.callback)

\* The handler registered with the n-th route; it only records that it ran.
HandlerOf(n) == ToString(n)

\* new Router()
new_Router(p) ==
  /\ pc[p] \in {"idle", "routed"}
  /\ SetPc(p, "register")
  /\ SetLocal(p, [InitLocal EXCEPT !.mode = "routes"])
  /\ update' = [update EXCEPT ![p] = NoUpdate]
  /\ SetLog(p, <<>>)
  /\ UNCHANGED <<heap, store, session, params, stack>>

\* router.ts lines 30-40: this.commandRoutes.push(route)
onCommand(p, command) ==
  /\ pc[p] = "register"
  /\ RouteCount(local[p].tables) < MaxRoutes
  /\ SetLocal(p, [local[p] EXCEPT !.tables.command =
         Append(@, Route_("command", command, HandlerOf(RouteCount(local[p].tables) + 1)))])
  /\ UNCHANGED <<heap, store, pc, update, session, params, stack, log>>

\* router.ts lines 47-57: this.callbackQueryRoutes.push(route)
onCallbackQuery(p, pattern) ==
  /\ pc[p] = "register"
  /\ RouteCount(local[p].tables) < MaxRoutes
  /\ SetLocal(p, [local[p] EXCEPT !.tables.callback =
         Append(@, Route_("pattern", pattern, HandlerOf(RouteCount(local[p].tables) + 1)))])
  /\ UNCHANGED <<heap, store, pc, update, session, params, stack, log>>

\* router.ts lines 64-74: this.textRoutes.push(route)
onText(p, pattern) ==
  /\ pc[p] = "register"
  /\ RouteCount(local[p].tables) < MaxRoutes
  /\ SetLocal(p, [local[p] EXCEPT !.tables.text =
         Append(@, Route_("pattern", pattern, HandlerOf(RouteCount(local[p].tables) + 1)))])
  /\ UNCHANGED <<heap, store, pc, update, session, params, stack, log>>

\* router.ts lines 122-154 and 168-201 for a context whose session has no
\* flowName: the tables are tried, ctx.params is set from the match and the
\* selected route's handler is awaited.
route_tables(p, u) ==
  /\ pc[p] = "register"
  /\ update' = [update EXCEPT ![p] = u]
  /\ LET tb == local[p].tables
         d == RouteDecision(tb.command, tb.text, tb.callback, u)
     IN IF d.index = 0
        THEN /\ SetLog(p, <<Ev("tables", "", "")>>)
             /\ UNCHANGED params
        ELSE /\ params' = [params EXCEPT ![p] =
                    RouterParams(extractParamNames(d.route.pattern, 1),
                                 RouteMatch(d.route, d.text)[1])]
             /\ SetLog(p, <<Ev("tables", "", ""), Ev("handler", d.route.handler, "")>>)
  /\ SetPc(p, "routed")
  /\ UNCHANGED <<heap, store, session, stack, local>>

RoutesStep(p) ==
  \/ new_Router(p)
  \/ \E c \in RouteCommands : onCommand(p, c)
  \/ \E t \in RoutePatterns : onCallbackQuery(p, t)
  \/ \E t \in RoutePatterns : onText(p, t)
  \/ \E u \in RouteUpdates : route_tables(p, u)

RoutesNext == RoutesStep(1)

SpecRoutes == Init /\ [][RoutesNext]_vars

TypeOK ==
  /\ \A p \in Procs : pc[p] \in {"idle", "session", "route", "handle", "handled",
        "execute", "render", "onEnter", "component", "answer", "edit", "reply",
        "displayError", "actionError", "stateless", "handler", "return", "mw", "unwind", "unit", "done", "keyboard", "inlined", "match", "matched", "register", "routed"}
  /\ \A p \in Procs : session[p] \in Refs \cup {NoRef}
  /\ \A p \in Procs : Len(stack[p]) <= MaxDepth


(***************************************************************************)
(* Properties                                                               *)
(***************************************************************************)
TransportOps == {"reply", "editMessageText", "answerCallbackQuery"}
UnitOps == {"command", "query", "view"}

\* handle has been entered for the update, and its locals are those of the
\* call that was entered last.
Entered(p) == local[p].mark > 0 /\ pc[p] # "handle"

\* What happened since handle was entered.
Since(p) ==
  IF local[p].mark = 0 THEN <<>> ELSE SubSeq(log[p], local[p].mark, Len(log[p]))

Has(seq, ops) == \E i \in 1..Len(seq) : seq[i].op \in ops

Count(seq, op, x) == Cardinality({i \in 1..Len(seq) : seq[i].op = op /\ seq[i].x = x})

\* handle has returned and its caller has not gone on yet.
Returned(p) == pc[p] = "handled"

Paired(s) == (s.flowName = Absent) <=> (s.flowState = Absent)

\* The event matches no pattern of state st of flow F.
Unmatched(F, st, u) ==
  /\ \A i \in 1..Len(Flows[F][st].onAction) :
       callbackData(u) = NoText
         \/ PatternMatch(Flows[F][st].onAction[i][1], callbackData(u)) = NoMatch
  /\ \A i \in 1..Len(Flows[F][st].onText) :
       messageText(u) = NoText
         \/ PatternMatch(Flows[F][st].onText[i][1], messageText(u)) = NoMatch

\* handle was entered with the conversation in a state of its flow.
InState(p) ==
  /\ local[p].pre.flowName = local[p].flow
  /\ currentStateName(local[p].pre) \in DOMAIN Flows[local[p].flow]

\* C1: when input validation, the command's execute or output validation
\* throws while a matched rule is executed, then once handle has returned the
\* session's flowName and flowState are what they were when handle was
\* entered, no state was rendered, the action-failure message was sent
\* exactly once, and handle returned true.
C1_FailurePreservesState ==
  \A p \in Procs :
    (Returned(p) /\ local[p].cmd \in {"inputThrow", "execThrow", "outputThrow"}) =>
      /\ Sess(p).flowName = local[p].pre.flowName
      /\ Sess(p).flowState = local[p].pre.flowState
      /\ ~Has(Since(p), {"render", "view"})
      /\ Count(Since(p), "reply", ActionFailMsg) = 1
      /\ local[p].ret = "true"

C1_Witness ==
  \E p \in Procs :
    /\ Returned(p) /\ local[p].cmd = "execThrow"
    /\ local[p].rule.nextState = "second" /\ local[p].pre.flowState = "index"

C3_ExitClearsBoth ==
  \A p \in Procs :
    ( /\ Entered(p) /\ local[p].cmd = "ok" /\ ~local[p].rule.refresh
      /\ \/ local[p].rule.nextState = Absent
         \/ local[p].rule.nextState = "function" /\ Selector(local[p].result) = Absent ) =>
      /\ Sess(p).flowName = Absent
      /\ Sess(p).flowState = Absent
      /\ ~Has(Since(p), {"view", "render"} \cup TransportOps)
      /\ Returned(p) => local[p].ret = "true"

C3_Witness ==
  \E p \in Procs :
    /\ Returned(p) /\ local[p].cmd = "ok" /\ local[p].rule.nextState = "function"
    /\ ~local[p].rule.refresh /\ local[p].result = "r2"
    /\ local[p].pre.flowName = "main" /\ local[p].pre.flowState = "index"

\* C4: a session that starts with flowName and flowState both present or
\* both absent has them both present or both absent in every state that
\* enterFlow and handle lead to; so has every stored record.
C4_KeysPaired ==
  /\ \A p \in Procs :
       (session[p] # NoRef /\ Paired(local[p].start)) => Paired(Sess(p))
  /\ \A k \in Users : store[k] # NoRef => Paired(heap[store[k]])

C4_Witness ==
  \E p \in Procs :
    /\ local[p].mode = "router" /\ Has(log[p], {"enterFlow"})
    /\ Returned(p) /\ Sess(p).flowName = "main" /\ Sess(p).flowState = "index"

\* The entry query of the state that handle re-renders failed.
EntryQueryFailed(p) ==
  LET st == Flows[local[p].flow][currentStateName(local[p].pre)]
  IN /\ st.onEnter # NoQuery
     /\ \/ ~ParseOk(Queries[st.onEnter].input, Undefined)
        \/ \E i \in 1..Len(Since(p)) :
             Since(p)[i].op = "query" /\ Since(p)[i].r \in {Throws, "pbad"}

\* C5 as stated: in state S of F, an event that matches no pattern of S makes
\* handle return true with the view function of S invoked and flowState
\* unchanged, and no stateless handler runs.
C5_AsStated ==
  \A p \in Procs :
    ( /\ Entered(p) /\ InState(p)
      /\ Unmatched(local[p].flow, currentStateName(local[p].pre), update[p])
      /\ Returned(p) ) =>
      /\ local[p].ret = "true"
      /\ Count(Since(p), "view", currentStateName(local[p].pre)) = 1
      /\ Sess(p).flowState = local[p].pre.flowState
      /\ ~Has(Since(p), {"handler"})

\* C5 amended: in state S of F, an event that matches no pattern of S makes
\* handle return true with flowState unchanged, and no stateless handler runs;
\* the view function of S is invoked once unless the entry query of S failed,
\* and then no view function is invoked and the display-error message is sent.
C5_UnmatchedRerenders ==
  \A p \in Procs :
    ( /\ Entered(p) /\ InState(p)
      /\ Unmatched(local[p].flow, currentStateName(local[p].pre), update[p]) ) =>
      /\ ~Has(Since(p), {"handler", "tables", "command"})
      /\ Sess(p).flowState = local[p].pre.flowState
      /\ \A i \in 1..Len(Since(p)) :
           Since(p)[i].op = "view" => Since(p)[i].x = currentStateName(local[p].pre)
      /\ Returned(p) =>
           /\ local[p].ret = "true"
           /\ IF EntryQueryFailed(p)
              THEN /\ ~Has(Since(p), {"view"})
                   /\ Count(Since(p), "reply", DisplayFailMsg) = 1
              ELSE Count(Since(p), "view", currentStateName(local[p].pre)) = 1

C5_Witness ==
  \E p \in Procs :
    /\ Returned(p) /\ InState(p) /\ local[p].mode = "router"
    /\ update[p].data = T_hello /\ local[p].pre.flowState = "index"
    /\ Has(Since(p), {"view"})

\* C6: when the session's flowName is not F's name (or is absent), F.handle
\* returns false, changes no key of ctx.session and ctx.params, runs no
\* command, query or view function, and makes no transport call.
C6_NotInFlowPassthrough ==
  \A p \in Procs :
    (Entered(p) /\ Returned(p) /\ local[p].pre.flowName # local[p].flow) =>
      /\ local[p].ret = "false"
      /\ Sess(p) = local[p].pre
      /\ params[p] = local[p].preParams
      /\ ~Has(Since(p), UnitOps \cup TransportOps \cup {"render", "nextState"})

C6_Witness ==
  \E p \in Procs :
    /\ Returned(p) /\ local[p].flow = "main" /\ local[p].pre.flowName = "aux"
    /\ local[p].pre.flowState = "index" /\ update[p].data = T_bob

\* C7: when the session's flowName is F's name and its state name is no key
\* of F's config, handle returns false, removes flowName and flowState, and
\* runs no command, query or view function and makes no transport call.
C7_MissingStateSelfHeals ==
  \A p \in Procs :
    ( /\ Entered(p) /\ Returned(p)
      /\ local[p].pre.flowName = local[p].flow
      /\ currentStateName(local[p].pre) \notin DOMAIN Flows[local[p].flow] ) =>
      /\ local[p].ret = "false"
      /\ Sess(p).flowName = Absent
      /\ Sess(p).flowState = Absent
      /\ ~Has(Since(p), UnitOps \cup TransportOps \cup {"render", "nextState"})

C7_Witness ==
  \E p \in Procs :
    /\ Returned(p) /\ local[p].flow = "main" /\ local[p].pre.flowName = "main"
    /\ local[p].pre.flowState = "nowhere" /\ update[p].data = D_inc

\* C8: Router.route offers the event first to the flow the session names;
\* when handle returns true no stateless route is tried; when it returns
\* false, or no flow is active, the stateless tables are tried.
C8_FlowBeforeStateless ==
  \A p \in Procs :
    local[p].mode = "router" =>
      /\ pc[p] = "handle" =>
           /\ local[p].flow = Sess(p).flowName
           /\ log[p][Len(log[p])] = Ev("route", Sess(p).flowName, "")
      /\ pc[p] = "stateless" =>
           \/ /\ log[p][Len(log[p])] = Ev("route", Absent, "")
              /\ Sess(p).flowName \notin FlowNames
           \/ /\ log[p][Len(log[p])].op = "handled"
              /\ log[p][Len(log[p])].r = "false"
      /\ \A i \in 1..Len(log[p]) :
           /\ (log[p][i].op = "route" /\ i < Len(log[p])) =>
                IF log[p][i].x # Absent
                THEN log[p][i + 1] = Ev("handle", log[p][i].x, "")
                ELSE log[p][i + 1].op = "tables"
           /\ (log[p][i].op = "handled" /\ i < Len(log[p])) =>
                IF log[p][i].r = "true"
                THEN log[p][i + 1].op \notin {"tables", "handler"}
                ELSE log[p][i + 1].op = "tables"
           /\ log[p][i].op = "tables" =>
                /\ i > 1
                /\ \/ log[p][i - 1] = Ev("route", Absent, "")
                   \/ log[p][i - 1].op = "handled" /\ log[p][i - 1].r = "false"

C8_Witness ==
  \E p \in Procs :
    /\ local[p].mode = "router"
    /\ \E i \in 1..Len(log[p]) :
         /\ i < Len(log[p])
         /\ log[p][i].op = "handled" /\ log[p][i].r = "false"
         /\ log[p][i + 1].op = "tables"

\* C9: while Router.handle works on one update, at most one handler runs,
\* counting the stateless route handlers and the commands of flow rules
\* together.
C9_AtMostOneHandler ==
  \A p \in Procs :
    local[p].mode = "router" =>
    Cardinality({i \in 1..Len(log[p]) : log[p][i].op \in {"handler", "command"}}) <= 1

\* C10: an exception thrown by a transport call of the flow engine is not
\* handled inside the flow engine: handle does not return after it, and
\* nothing more is sent for the update.
C10_TransportFailurePropagates ==
  \A p \in Procs :
    \A i \in 1..Len(log[p]) :
      ( /\ log[p][i].op \in TransportOps
        /\ log[p][i].x # "handler"
        /\ log[p][i].r = "throw" ) =>
        \A j \in (i + 1)..Len(log[p]) :
          log[p][j].op \notin TransportOps \cup {"handled"}

\* What happened since renderState was entered.
SinceRender(p) ==
  IF local[p].rmark = 0 THEN <<>> ELSE SubSeq(log[p], local[p].rmark, Len(log[p]))

\* renderState was entered for a state of the config that has an entry query.
RendersQuery(p) ==
  /\ local[p].rmark > 0
  /\ local[p].target \in DOMAIN Flows[local[p].flow]
  /\ Flows[local[p].flow][local[p].target].onEnter # NoQuery

\* The entry query of the state being rendered failed: its input contract
\* rejected undefined, its execute threw, or its output contract rejected
\* the result.
RenderQueryFailed(p) ==
  /\ RendersQuery(p)
  /\ \/ ~ParseOk(Queries[Flows[local[p].flow][local[p].target].onEnter].input, Undefined)
     \/ \E i \in 1..Len(SinceRender(p)) :
          SinceRender(p)[i].op = "query" /\ SinceRender(p)[i].r \in {Throws, "pbad"}

\* C11: when the entry query of the state being rendered fails, the view
\* function is not invoked, the render leaves the session as it found it,
\* and the display-error message is sent exactly once.
C11_QueryFailureDisplayError ==
  \A p \in Procs :
    (RenderQueryFailed(p) /\ pc[p] \in {"displayError", "actionError", "handled"}) =>
      /\ ~Has(SinceRender(p), {"view"})
      /\ Sess(p) = local[p].rpre
      /\ pc[p] = "displayError" => Count(SinceRender(p), "reply", DisplayFailMsg) = 0
      /\ pc[p] # "displayError" => Count(SinceRender(p), "reply", DisplayFailMsg) = 1

C11_Witness ==
  \E p \in Procs :
    /\ Returned(p) /\ RenderQueryFailed(p) /\ local[p].inAction
    /\ local[p].pre.flowState = "second" /\ local[p].target = "index"
    /\ \E i \in 1..Len(SinceRender(p)) :
         SinceRender(p)[i].op = "query" /\ SinceRender(p)[i].r = "pbad"

\* C12: when a callback event matches a refresh rule in state S and the
\* command succeeds, execute is called once, flowState remains S, and the
\* view of S is invoked with the command's result merged into the render
\* data if S has an entry query, else with empty props.
C12_RefreshRendersResult ==
  \A p \in Procs :
    ( /\ Entered(p) /\ Returned(p) /\ local[p].cmd = "ok" /\ local[p].rule.refresh
      /\ update[p].kind = "callback" /\ local[p].pre.flowState # Absent
      /\ ~RenderQueryFailed(p) ) =>
      /\ Cardinality({i \in 1..Len(Since(p)) : Since(p)[i].op = "command"}) = 1
      /\ Sess(p).flowState = local[p].pre.flowState
      /\ Count(Since(p), "view", local[p].pre.flowState) = 1
      /\ local[p].propsFrom =
           IF RendersQuery(p) THEN {"query", "command"} ELSE {}

\* C13: after the command of a refresh rule succeeds the flow neither
\* transitions nor exits: flowName is still the flow's name, the entry query
\* of the current state is run again and its component rendered again, also
\* for a session without flowState, whose current state is 'index'.
C13_RefreshStaysInState ==
  \A p \in Procs :
    (Entered(p) /\ Returned(p) /\ local[p].cmd = "ok" /\ local[p].rule.refresh) =>
      /\ Sess(p).flowName = local[p].flow
      /\ Count(Since(p), "render", currentStateName(local[p].pre)) = 1
      /\ RendersQuery(p) =>
           \/ Has(SinceRender(p), {"query"})
           \/ RenderQueryFailed(p)
      /\ ~RenderQueryFailed(p) =>
           Count(Since(p), "view", currentStateName(local[p].pre)) = 1

\* C14: ctx.enterFlow(F, S) called from a stateless handler, for a state S of
\* a registered flow F, sets the two keys and renders S: when it returns the
\* conversation is in state S of F, the view of S was shown (or its entry
\* query failed), and no rule of S was executed against the update.
C14_EnterFlowOnlyRenders ==
  \A p \in Procs :
    \A i \in 1..Len(log[p]) :
      ( /\ log[p][i].op = "enterFlow"
        /\ log[p][i].x \in FlowNames
        /\ log[p][i].r \in DOMAIN Flows[log[p][i].x] ) =>
        /\ \A j \in (i + 1)..Len(log[p]) : log[p][j].op # "command"
        /\ (pc[p] = "handler" /\ log[p][Len(log[p])].op = "entered") =>
             /\ Sess(p).flowName = log[p][i].x
             /\ Sess(p).flowState = log[p][i].r
             /\ \/ \E j \in (i + 1)..Len(log[p]) :
                     log[p][j].op = "view" /\ log[p][j].x = log[p][i].r
                \/ RenderQueryFailed(p)

C16_NoInputQuerySchemas ==
  \A p \in Procs :
    ( /\ RendersQuery(p) /\ Returned(p)
      /\ Queries[Flows[local[p].flow][local[p].target].onEnter].input
           \in {SchemaVoid, SchemaUndefined, SchemaObject({})} ) =>
      /\ Count(SinceRender(p), "query", local[p].target) = 1
      /\ \A i \in 1..Len(SinceRender(p)) :
           (SinceRender(p)[i].op = "query" /\ SinceRender(p)[i].r = "p1") =>
             /\ i < Len(SinceRender(p))
             /\ SinceRender(p)[i + 1] = Ev("view", local[p].target, "p1")

\* The transport calls renderState made, in order.
Delivery(p) ==
  SelectSeq(SinceRender(p), LAMBDA e : e.op \in TransportOps)

\* The render went through: the view was called and every transport call
\* returned.
RenderedOk(p) ==
  /\ Has(SinceRender(p), {"view"})
  /\ \A i \in 1..Len(SinceRender(p)) : SinceRender(p)[i].r # "throw"

\* C17: a successfully rendered state is delivered by answerCallbackQuery
\* followed by editMessageText when the event is a callback query, and by
\* one reply otherwise, whether the render follows a refresh, a transition,
\* an unmatched input or an enterFlow.
C17_DeliveryByOrigin ==
  \A p \in Procs :
    (Returned(p) /\ RenderedOk(p)) =>
      [i \in 1..Len(Delivery(p)) |-> <<Delivery(p)[i].op, Delivery(p)[i].x>>] =
        IF update[p].kind = "callback"
        THEN << <<"answerCallbackQuery", "">>, <<"editMessageText", local[p].target>> >>
        ELSE << <<"reply", local[p].target>> >>

C17_Witness ==
  \E p \in Procs :
    /\ Returned(p) /\ RenderedOk(p) /\ update[p].kind = "callback"
    /\ local[p].cmd = "ok" /\ local[p].rule.refresh /\ local[p].target = "index"

\* The event text a rule's pattern was matched against.
MatchedText(p) ==
  IF update[p].kind = "callback" THEN callbackData(update[p]) ELSE messageText(update[p])

\* The pattern table the rule was taken from.
MatchedTable(p) ==
  LET cfg == Flows[local[p].flow][local[p].state]
  IN IF update[p].kind = "callback" THEN cfg.onAction ELSE cfg.onText

\* C18: within a pattern table the patterns are tried in the order in which
\* they are written in the config, whatever the keys are: the rule executed
\* is that of the first written pattern that matches.
C18_InsertionOrder ==
  \A p \in Procs :
    (Entered(p) /\ local[p].rule # NoRule) =>
      LET tbl == MatchedTable(p)
          hits == {i \in 1..Len(tbl) : PatternMatch(tbl[i][1], MatchedText(p)) # NoMatch}
          first == CHOOSE i \in hits : \A j \in hits : i <= j
      IN /\ hits # {}
         /\ local[p].pattern = tbl[first][1]
         /\ local[p].rule = tbl[first][2]

\* C19: when a template pattern with placeholders matches, ctx.params is,
\* before the command executes, the mapping of each placeholder name to the
\* capture at its position and nothing else ('s:::id' against 's::7' gives
\* exactly {id: '7'}, 'a::x::y' against 'a:1:2' exactly {x: '1', y: '2'}).
C19_TemplateParams ==
  \A p \in Procs :
    ( /\ Entered(p) /\ local[p].rule # NoRule
      /\ \E i \in 1..Len(local[p].pattern) : local[p].pattern[i] = ":" ) =>
      LET names == extractParamNames(local[p].pattern, 1)
          caps == PatternMatch(local[p].pattern, MatchedText(p))[1]
      IN /\ Len(names) = Len(caps)
         /\ DOMAIN params[p] = {names[i] : i \in 1..Len(names)}
         /\ \A i \in 1..Len(names) : params[p][names[i]] = caps[i]
         /\ (local[p].pattern = K_sel /\ MatchedText(p) = D_sel) =>
              params[p] = (<<"i", "d">> :> <<"7">>)
         /\ (local[p].pattern = K_pair /\ MatchedText(p) = D_pair) =>
              params[p] = (<<"x">> :> <<"1">>) @@ (<<"y">> :> <<"2">>)
         /\ (local[p].pattern = K_name /\ MatchedText(p) = T_bob) =>
              params[p] = (<<"n", "a", "m", "e">> :> T_bob)

C19_Witness ==
  \E p \in Procs :
    /\ pc[p] = "execute" /\ local[p].pattern = K_pair
    /\ MatchedText(p) = D_pair /\ local[p].rule.command = "pair"
    /\ params[p] = (<<"x">> :> <<"1">>) @@ (<<"y">> :> <<"2">>)

\* handle was entered for a session of its flow whose state is not in the
\* flow's config.
MissingState(p) ==
  /\ Entered(p)
  /\ local[p].pre.flowName = local[p].flow
  /\ currentStateName(local[p].pre) \notin DOMAIN Flows[local[p].flow]

\* C20 as stated: when the session's state is not in the flow's config, the
\* flow is exited, nothing is rendered again, and no stateless route handler
\* runs for the event.
C20_AsStated ==
  \A p \in Procs :
    (MissingState(p) /\ local[p].mode = "router") =>
      /\ ~Has(Since(p), {"render", "view"} \cup TransportOps)
      /\ Sess(p).flowName = Absent /\ Sess(p).flowState = Absent
      /\ ~Has(Since(p), {"tables", "handler"})

\* C20 amended: when the session's state is not in the flow's config, the
\* flow is exited and nothing is rendered, and since handle returns false
\* Router.route goes on to the stateless tables for the same event.
C20_MissingStateFallsThrough ==
  \A p \in Procs :
    (MissingState(p) /\ local[p].mode = "router") =>
      /\ Returned(p) =>
           /\ local[p].ret = "false"
           /\ Sess(p).flowName = Absent /\ Sess(p).flowState = Absent
           /\ ~Has(Since(p), {"render", "view"} \cup TransportOps)
      /\ log[p][Len(log[p])] = Ev("handled", local[p].flow, "false") =>
           pc[p] = "stateless"
      /\ \A i \in 1..Len(Since(p)) :
           (Since(p)[i].op = "handled" /\ i < Len(Since(p))) =>
             Since(p)[i + 1].op = "tables"

C20_Witness ==
  \E p \in Procs :
    /\ MissingState(p) /\ local[p].mode = "router"
    /\ \E i \in 1..Len(Since(p)) :
         /\ i + 1 < Len(Since(p))
         /\ Since(p)[i] = Ev("handled", "main", "false")
         /\ Since(p)[i + 1].op = "tables"
         /\ Since(p)[i + 2].op = "handler"

\* The state that was rendered has neither onAction nor onText entries.
NoHandlers(F, st) ==
  /\ st \in DOMAIN Flows[F]
  /\ Flows[F][st].onAction = <<>>
  /\ Flows[F][st].onText = <<>>

\* C21: once a state with no onAction and no onText has been shown
\* (its render went through and handle has returned), the session's flowName
\* and flowState are cleared.
C21_AsStated ==
  \A p \in Procs :
    ( /\ Returned(p) /\ local[p].rmark > 0 /\ RenderedOk(p)
      /\ NoHandlers(local[p].flow, local[p].target) ) =>
      /\ Sess(p).flowName = Absent
      /\ Sess(p).flowState = Absent

StoreOps == {"store.get", "store.set", "store.delete"}

\* The calls of the session store made for the update, in order.
StoreCalls(p) == SelectSeq(log[p], LAMBDA e : e.op \in StoreOps)

\* Events of Router.route and of everything below it.
Downstream(e) == e.op \notin (StoreOps \cup {"before", "after", "blocked", "catch"})

\* The session middleware's `await next()` has returned normally.
ChainCompleted(p) == \E i \in 1..Len(log[p]) : log[p][i] = Ev("after", "session", "")

\* C22: for an update with a user id handled by Router.handle, store.get is
\* called once, before anything downstream of the session middleware runs;
\* set and delete are not called before the chain below the session
\* middleware has completed; and once it has, exactly one of these was done
\* after it: store.set if the session is non-empty, store.delete if it is
\* empty and a record existed, no store call if it is empty and none existed.
C22_StoreCallsPerUpdate ==
  \A p \in Procs :
    (local[p].mode = "router" /\ update[p] # NoUpdate /\ update[p].user # 0) =>
      /\ Count(log[p], "store.get", "") <= 1
      /\ \A i \in 1..Len(log[p]) :
           Downstream(log[p][i]) =>
             \E j \in 1..(i - 1) : log[p][j] = Ev("store.get", "", "ok")
      /\ ~ChainCompleted(p) =>
           \A i \in 1..Len(StoreCalls(p)) : StoreCalls(p)[i].op = "store.get"
      /\ \A i \in 1..Len(log[p]) :
           log[p][i].op \in {"store.set", "store.delete"} =>
             \A j \in (i + 1)..Len(log[p]) : ~Downstream(log[p][j])
      /\ (ChainCompleted(p) /\ pc[p] = "done") =>
           [i \in 1..Len(StoreCalls(p)) |-> StoreCalls(p)[i].op] =
             IF Sess(p) # EmptySession THEN <<"store.get", "store.set">>
             ELSE IF local[p].sessionExists THEN <<"store.get", "store.delete">>
             ELSE <<"store.get">>

C22_Witness ==
  \E p \in Procs :
    /\ local[p].mode = "router" /\ update[p] # NoUpdate /\ update[p].user # 0
    /\ ChainCompleted(p) /\ pc[p] = "done"
    /\ Has(log[p], {"handled"})
    /\ Sess(p) = EmptySession
    /\ [i \in 1..Len(StoreCalls(p)) |-> StoreCalls(p)[i].op] = <<"store.get", "store.delete">>

\* C24: the promise of Router.handle never rejects: whatever threw below it
\* (a middleware's store call, the flow controller, a stateless handler, a
\* transport call), the exception is caught once at the top, after which
\* nothing more is done for the update (no retry), and the promise resolves.
C24_HandleNeverRejects ==
  \A p \in Procs :
    local[p].mode = "router" =>
      /\ local[p].outcome # "rejected"
      /\ \A i \in 1..Len(log[p]) :
           log[p][i].op = "catch" =>
             /\ i = Len(log[p])
             /\ pc[p] = "done"
             /\ local[p].outcome = "caught"
      /\ pc[p] = "done" => local[p].outcome \in {"resolved", "caught"}
      /\ local[p].outcome = "caught" => log[p][Len(log[p])] = Ev("catch", "", "")

\* An exception left the flow controller (its fallback reply failed) and was
\* caught by Router.handle.
C24_Witness ==
  \E p \in Procs :
    /\ local[p].mode = "router"
    /\ pc[p] = "done" /\ local[p].outcome = "caught"
    /\ Has(log[p], {"handle"}) /\ ~Has(log[p], {"handled"})
    /\ log[p][Len(log[p])] = Ev("catch", "", "")
    /\ log[p][Len(log[p]) - 1].r = "throw"

\* Where in the log Router.handle's innermost nextFn called Router.route (the
\* first route event; later ones are enterFlow's), 0 if it has not.
RouteStart(p) ==
  IF Has(log[p], {"route"})
  THEN CHOOSE i \in 1..Len(log[p]) :
         log[p][i].op = "route" /\ \A j \in 1..(i - 1) : log[p][j].op # "route"
  ELSE 0

\* The events of the middlewares' own parts and of routing, in order.
ChainEvents(p) ==
  SelectSeq(log[p], LAMBDA e : e.op \in {"before", "after", "blocked"}
                                 \/ (e.op = "route" /\ e = log[p][RouteStart(p)]))

\* C25: Router.handle runs the middlewares as nested wrappers in the order
\* of registration: the parts before next in that order, then routing once,
\* then the parts after next in the reverse order; and routing happens only
\* if every middleware has called next.
C25_MiddlewareNesting ==
  \A p \in Procs :
    (local[p].mode = "router" /\ pc[p] = "done" /\ local[p].outcome = "resolved") =>
      LET n == Len(Registered)
          ops == [i \in 1..Len(ChainEvents(p)) |-> <<ChainEvents(p)[i].op, ChainEvents(p)[i].x>>]
          blocked == Has(log[p], {"blocked"})
      IN /\ ~blocked =>
              /\ Len(ops) = 2 * n + 1
              /\ \A i \in 1..n : ops[i] = <<"before", Registered[i]>>
              /\ ops[n + 1][1] = "route"
              /\ \A i \in 1..n : ops[n + 1 + i] = <<"after", Registered[n + 1 - i]>>
         /\ blocked =>
              /\ ~Has(log[p], {"route"})
              /\ \E k \in 1..n :
                   /\ Len(ops) = 2 * k
                   /\ \A i \in 1..k : ops[i] = <<"before", Registered[i]>>
                   /\ ops[k + 1] = <<"blocked", Registered[k]>>
                   /\ \A i \in 1..(k - 1) : ops[k + 1 + i] = <<"after", Registered[k - i]>>

C25_Witness ==
  \E p \in Procs :
    /\ local[p].mode = "router" /\ pc[p] = "done" /\ local[p].outcome = "resolved"
    /\ Len(ChainEvents(p)) = 2 * Len(Registered) + 1
    /\ Has(log[p], {"handled"})
    /\ Has(log[p], {"store.set"})

\* C28: while Router.handle handles an update without user id, the session
\* middleware makes no call of the store and the store does not change,
\* whatever the handlers write into the session; the session it hands to the
\* rest of the chain is {}; and it calls next once.
C28_NoUserNoStore ==
  [][ \A p \in Procs :
        ( /\ local'[p].mode = "router"
          /\ update'[p] # NoUpdate /\ update'[p].user = 0 ) =>
          /\ store' = store
          /\ StoreCalls(p)' = <<>>
          /\ (log'[p] # <<>> /\ log'[p][Len(log'[p])] = Ev("before", "session", "")) =>
               /\ Sess(p)' = EmptySession
               /\ pc'[p] = "mw"
          /\ Count(log'[p], "before", "tail") <= 1
          /\ (log'[p] # <<>> /\ log'[p][Len(log'[p])] = Ev("after", "session", "")) =>
               Count(log'[p], "before", "tail") = 1
    ]_vars

C28_Witness ==
  \E p \in Procs :
    /\ local[p].mode = "router"
    /\ update[p] # NoUpdate /\ update[p].user = 0
    /\ pc[p] = "done" /\ local[p].outcome = "resolved"
    /\ ChainCompleted(p)
    /\ Sess(p).flowName = "main"
    /\ StoreCalls(p) = <<>>

\* The command of the matched rule ran to its end and writes session.data.
CommandWrote(p) ==
  /\ local[p].cmd \in {"ok", "outputThrow"}
  /\ Commands[local[p].rule.command].writes

\* C27: handle writes no session key but flowName and flowState: whenever
\* handle has returned (after a transition, a refresh, an exit, a failure, an
\* unmatched input or a missing state) the key data holds what the command
\* left there, or what it held when handle was entered if no command ran.
C27_OnlyFlowKeysWritten ==
  \A p \in Procs :
    (Entered(p) /\ Returned(p)) =>
      Sess(p).data = IF CommandWrote(p) THEN "v" ELSE local[p].pre.data

\* A rule without nextState and refresh has ended the flow for a session
\* that held data.
C27_Witness ==
  \E p \in Procs :
    /\ Entered(p) /\ Returned(p)
    /\ local[p].cmd = "ok" /\ ~CommandWrote(p)
    /\ local[p].pre.flowName = "main" /\ local[p].pre.data = "v"
    /\ Sess(p).flowName = Absent /\ Sess(p).flowState = Absent
    /\ Sess(p).data = "v"

\* The command of the matched rule succeeded and named a state of the
\* flow's config to go to; handle has not gone past that call yet.
Transitioned(p) ==
  /\ Entered(p)
  /\ local[p].inAction /\ local[p].cmd = "ok"
  /\ local[p].target \in DOMAIN Flows[local[p].flow]

\* C30: after a successful transition the session's flowState is the target
\* state from before the render starts (no entry query has run, no view has
\* been built and nothing has been sent since the command) until handle has
\* returned, whether the render went through or failed: no rollback.
C30_StateSetBeforeRender ==
  \A p \in Procs :
    Transitioned(p) =>
      /\ Sess(p).flowName = local[p].flow
      /\ Sess(p).flowState = local[p].target
      /\ pc[p] = "render" =>
           /\ log[p][Len(log[p])].op \in {"command", "nextState"}
           /\ \A i \in local[p].mark..Len(log[p]) :
                log[p][i].op \notin ({"render", "query", "view"} \cup TransportOps)

\* The entry query of the target failed after a transition, and the session
\* is in the target state.
C30_Witness ==
  \E p \in Procs :
    /\ Transitioned(p) /\ Returned(p)
    /\ local[p].pre.flowState = "second" /\ local[p].target = "index"
    /\ RenderQueryFailed(p)
    /\ Has(SinceRender(p), {"reply"})
    /\ Sess(p).flowState = "index"

\* C26: a unit built by createCommand / createQuery invokes the user's
\* execute only with an input that its input contract accepts (the parsed
\* input), resolves only with a result that its output contract accepts, and
\* rejects when the input is refused, when execute throws and when the
\* result is refused.
C26_UnitContracts ==
  \A p \in Procs :
    local[p].mode = "unit" =>
      LET schema == UnitSchema(local[p].unit)
          invoked == Has(log[p], {"execute"})
      IN /\ invoked =>
              /\ ParseOk(schema, local[p].input)
              /\ local[p].arg = Parse(schema, local[p].input)
              /\ ParseOk(schema, local[p].arg)
              /\ Len(log[p]) = 1
         /\ local[p].outcome = "resolved" =>
              /\ invoked
              /\ local[p].value = log[p][1].r
              /\ local[p].value \in {"r1", "r2", "p1"}
         /\ pc[p] = "done" =>
              /\ local[p].outcome \in {"resolved", "rejected"}
              /\ ~ParseOk(schema, local[p].input) =>
                   ~invoked /\ local[p].outcome = "rejected"
              /\ (invoked /\ log[p][1].r \in {Throws, "rbad", "pbad"}) =>
                   local[p].outcome = "rejected"

\* An object that lacks a key of the contract was refused, and a result the
\* output contract refuses made the promise reject.
C26_Witness ==
  /\ \E p \in Procs :
       /\ local[p].mode = "unit" /\ pc[p] = "done"
       /\ local[p].unit = "note" /\ IsObject(local[p].input)
       /\ log[p] = <<>> /\ local[p].outcome = "rejected"
  \/ \E p \in Procs :
       /\ local[p].mode = "unit" /\ pc[p] = "done"
       /\ log[p] = <<Ev("execute", "inc", "rbad")>>
       /\ local[p].outcome = "rejected"

\* The row that is current when the i-th builder call is made.
RowAt(calls, i) == 1 + Cardinality({j \in 1..(i - 1) : calls[j].op = "row"})

\* The builder calls that added a button to row r.
AddedTo(calls, r) ==
  {i \in 1..Len(calls) : calls[i].op = "button" /\ RowAt(calls, i) = r}

\* C29: for any sequence of button-adding and row() calls on a new Keyboard,
\* inline() returns 1 + (number of row() calls) rows, and row r holds exactly
\* the buttons added while r was the current row, each once, in call order.
C29_KeyboardRows ==
  \A p \in Procs :
    pc[p] = "inlined" =>
      LET m == local[p].markup
          calls == local[p].calls
      IN /\ Len(m) = 1 + Cardinality({i \in 1..Len(calls) : calls[i].op = "row"})
         /\ \A r \in 1..Len(m) :
              /\ Len(m[r]) = Cardinality(AddedTo(calls, r))
              /\ \A k \in 1..Len(m[r]) :
                   \E i \in AddedTo(calls, r) :
                     /\ Cardinality({j \in AddedTo(calls, r) : j < i}) = k - 1
                     /\ m[r][k] = calls[i].b

\* text, row, row, text: an empty row in the middle.
C29_Witness ==
  \E p \in Procs :
    /\ pc[p] = "inlined"
    /\ Len(local[p].calls) = 4
    /\ local[p].calls[2].op = "row" /\ local[p].calls[3].op = "row"
    /\ Len(local[p].markup) = 3
    /\ local[p].markup[2] = <<>>
    /\ Len(local[p].markup[1]) = 1 /\ Len(local[p].markup[3]) = 1

\* The stored record of a user: its content, or Absent if there is none.
Record(u) == IF store[u] = NoRef THEN Absent ELSE heap[store[u]]

\* Everything that belongs to the Router.handle call of process q and to its
\* user: where the call is, its context (update, params, session object and
\* the session's content), what it has done so far, and the user's record.
Own(q) ==
  << pc[q], update[q], params[q], stack[q], log[q], local[q], session[q],
     IF session[q] = NoRef THEN Absent ELSE Sess(q),
     store[UserOf(q)], Record(UserOf(q)) >>

\* The two calls share no session object.
NoSharing ==
  \A p, q \in Procs :
    (p # q /\ session[p] # NoRef) =>
      session[p] \notin {session[q], store[UserOf(q)], local[q].sessionData}

\* The call of p has completed its chain without exception: the user's
\* record is the session the call ended with, or is gone if that is empty.
SavedOwn(p) ==
  (pc[p] = "done" /\ local[p].outcome = "resolved" /\ ChainCompleted(p)) =>
    /\ Sess(p) # EmptySession => (store[UserOf(p)] = session[p] /\ Record(UserOf(p)) = Sess(p))
    /\ Sess(p) = EmptySession => store[UserOf(p)] = NoRef

\* C23: when the updates of two different users are handled concurrently,
\* interleaved at any await, no step of one call reads or writes the other
\* user's session: the calls share no session object, every step changes
\* the context, session and stored record of one user only, and a call that
\* completes leaves as its user's record the session it ended with, as it
\* does when it runs alone.
C23_UsersIsolated ==
  [][ /\ NoSharing'
      /\ \A p \in Procs : SavedOwn(p)'
      /\ \A p, q \in Procs :
           (p # q /\ Own(p)' # Own(p)) => Own(q)' = Own(q)
    ]_vars

\* Both calls are between two awaits at the same time, the first in its
\* flow after a transition and the second in a stateless handler that has
\* written into its session; both users have a record from earlier updates.
C23_Witness ==
  /\ pc[1] = "component" /\ pc[2] = "handler"
  /\ update[1].data = D_go /\ Sess(1).flowName = "main" /\ Sess(1).flowState = "second"
  /\ Sess(2).data = "v" /\ Sess(2).flowName = Absent
  /\ store[UserOf(1)] = session[1]
  /\ store[UserOf(2)] = session[2]

\* The action-failure message was sent since handle was entered.
ActionFailSent(p) ==
  \E i \in 1..Len(Since(p)) :
    Since(p)[i].op = "reply" /\ Since(p)[i].x = ActionFailMsg

\* C31: whenever the action-failure message is sent during handle, the
\* command did not complete successfully and the session's flowName and
\* flowState are what they were before the event; a failure while a state
\* is rendered never has the action-failure message sent.
C31_AsStated ==
  \A p \in Procs :
    (Entered(p) /\ ActionFailSent(p)) =>
      /\ local[p].cmd \in {"inputThrow", "execThrow", "outputThrow"}
      /\ Sess(p).flowName = local[p].pre.flowName
      /\ Sess(p).flowState = local[p].pre.flowState
      /\ local[p].rmark = 0

ReentryNeverReturns ==
  \A p \in Procs :
    ( /\ local[p].mode = "router"
      /\ messageText(update[p]) \in {T_bad, T_lost}
      /\ stack[p] # <<>> ) =>
      /\ pc[p] \notin {"return", "unwind", "done"}
      /\ \A i \in 1..Len(stack[p]) :
            /\ stack[p][i].handler \in {"hBad", "hLost"}
            /\ stack[p][i].pos = 1

\* The command of the matched rule succeeded and the rule resolved to a
\* state name that the flow's config does not have.
TransitionToMissing(p) ==
  /\ Entered(p)
  /\ local[p].inAction /\ local[p].cmd = "ok"
  /\ local[p].target \notin DOMAIN Flows[local[p].flow]

\* C33: when a successful transition resolves to a state name that is not in
\* the flow's config, then once handle has returned both session keys are
\* cleared, no query and no view function was invoked, nothing was sent to
\* the transport, and handle returned true.
C33_MissingTargetSilent ==
  \A p \in Procs :
    (TransitionToMissing(p) /\ Returned(p)) =>
      /\ Sess(p).flowName = Absent
      /\ Sess(p).flowState = Absent
      /\ ~Has(Since(p), {"query", "view"} \cup TransportOps)
      /\ Has(Since(p), {"render"})
      /\ local[p].ret = "true"

C33_Witness ==
  \E p \in Procs :
    /\ TransitionToMissing(p) /\ Returned(p)
    /\ local[p].mode = "router"
    /\ update[p].data = D_bad
    /\ local[p].pre.flowName = "main" /\ local[p].pre.flowState = "index"
    /\ local[p].target = "nowhere"
    /\ Sess(p).flowName = Absent

\* The step of p ends with event e.
Logs(p, e) ==
  /\ Len(log'[p]) > Len(log[p])
  /\ log'[p][Len(log'[p])] = e

C35_AsStated ==
  \A p \in Procs :
    ( /\ local[p].mode = "router" /\ update[p] # NoUpdate /\ update[p].user # 0
      /\ pc[p] = "done" /\ local[p].outcome = "caught"
      /\ Has(log[p], {"route"}) /\ ~ChainCompleted(p) ) =>
      /\ ~Has(log[p], {"store.set", "store.delete"})
      /\ Record(update[p].user) = local[p].record

\* How many times answerCallbackQuery was called since handle was entered.
Answers(p) ==
  Cardinality({i \in 1..Len(Since(p)) : Since(p)[i].op = "answerCallbackQuery"})

\* C36: when handle returns true for an update that is a callback query,
\* answerCallbackQuery has been called exactly once since handle was
\* entered, whatever the outcome (refresh, transition, exit, action failure,
\* display failure).
C36_AsStated ==
  \A p \in Procs :
    ( /\ Entered(p) /\ Returned(p)
      /\ local[p].ret = "true"
      /\ update[p].kind = "callback" ) =>
      Answers(p) = 1

\* Index of the first and of the last occurrence of character c in s (0 if
\* there is none).
FirstIndex(s, c) ==
  IF \E i \in 1..Len(s) : s[i] = c
  THEN CHOOSE i \in 1..Len(s) : s[i] = c /\ \A j \in 1..(i - 1) : s[j] # c
  ELSE 0

LastIndex(s, c) ==
  IF \E i \in 1..Len(s) : s[i] = c
  THEN CHOOSE i \in 1..Len(s) : s[i] = c /\ \A j \in (i + 1)..Len(s) : s[j] # c
  ELSE 0

C38_AsStated ==
  \A p \in Procs :
    ( /\ Entered(p)
      /\ local[p].pattern # NoText
      /\ \A i \in 1..Len(local[p].pattern) : local[p].pattern[i] # ":" ) =>
      update[p].data = local[p].pattern

\* The handlers that ran while the update was routed, in order.
Ran(p) ==
  LET idx == {i \in 1..Len(log[p]) : log[p][i].op = "handler"}
      F[n \in 0..Len(log[p])] ==
        IF n = 0 THEN <<>>
        ELSE IF n \in idx THEN Append(F[n - 1], log[p][n].x) ELSE F[n - 1]
  IN F[Len(log[p])]

\* The routes of a table that match a text, and the first of them.
Matching(routes, text) ==
  {i \in 1..Len(routes) : RouteMatch(routes[i], text) # NoMatch}
Earliest(S) == CHOOSE i \in S : \A j \in S : i <= j

\* C39: one pass of Router.route over the stateless routes runs at most one
\* handler.  For a text message it is the handler of the earliest registered
\* command route that matches the text; when no command route matches, of
\* the earliest registered text route that matches; callback routes are not
\* tried.  For a callback query it is the handler of the earliest
\* registered callback route that matches the data, and no command or text
\* route is tried.  When nothing matches no handler runs.
C39_FirstMatchingRoute ==
  \A p \in Procs :
    pc[p] = "routed" =>
      LET tb == local[p].tables
          u == update[p]
          cm == Matching(tb.command, u.data)
          tm == Matching(tb.text, u.data)
          qm == Matching(tb.callback, u.data)
      IN /\ Len(Ran(p)) <= 1
         /\ u.kind = "message" =>
               Ran(p) = IF cm # {} THEN <<tb.command[Earliest(cm)].handler>>
                        ELSE IF tm # {} THEN <<tb.text[Earliest(tm)].handler>>
                        ELSE <<>>
         /\ u.kind = "callback" =>
               Ran(p) = IF qm # {} THEN <<tb.callback[Earliest(qm)].handler>>
                        ELSE <<>>

\* A text message that matches two command routes and a text route was
\* routed, and the handler of the first command route ran.
C39_Witness ==
  \E p \in Procs :
    /\ pc[p] = "routed"
    /\ update[p].kind = "message"
    /\ Cardinality(Matching(local[p].tables.command, update[p].data)) = 2
    /\ Matching(local[p].tables.text, update[p].data) # {}
    /\ Ran(p) = <<local[p].tables.command[1].handler>>

\* handle of the vpnOrder flow was entered in state confirmPlan, with a
\* plan selected, for the button 'confirm_payment'.
ConfirmPressed(p) ==
  /\ Entered(p)
  /\ local[p].flow = "vpnOrder"
  /\ local[p].pre.flowState = "confirmPlan"
  /\ local[p].pre.data = "v"
  /\ callbackData(update[p]) = D_confirm

\* C40: in the vpnOrder example, once a plan has been selected and
\* 'confirm_payment' is pressed in state confirmPlan, the processVpnOrder
\* command executes, and when it succeeds session.flowState is 'complete'
\* by the time handle returns.
C40_AsStated ==
  \A p \in Procs :
    (ConfirmPressed(p) /\ Returned(p)) =>
      /\ \E i \in 1..Len(Since(p)) :
            Since(p)[i].op = "command" /\ Since(p)[i].x = "processVpnOrder"
      /\ local[p].cmd = "ok" => Sess(p).flowState = "complete"

\* What holds instead: processVpnOrder never executes, and no session of
\* the example ever has flowState 'complete'.
VpnOrderNeverCompletes ==
  /\ \A p \in Procs : \A i \in 1..Len(log[p]) :
        ~(log[p][i].op = "command" /\ log[p][i].x = "processVpnOrder")
  /\ \A r \in Refs : heap[r].flowState # "complete"

====
